---- MODULE Spec2Model ----
(***************************************************************************)
(* State-machine model of the SignAssist touchless interaction engine:     *)
(* the pose-driven mode switcher (useModeSwitcher), the pointer navigator  *)
(* (useHandNavigation), the sequence buffer and classifier adapter         *)
(* (useGestureClassifier), the word builder (useWordBuilder) and the       *)
(* session orchestrator (KioskPage with ConfirmationPanel and              *)
(* useSpeechOutput).                                                       *)
(*                                                                         *)
(* Every hook is modelled as a record of its refs and React state, and     *)
(* every callback as an operator from the record before the call to the    *)
(* record after it.  Time is the millisecond clock read by                 *)
(* performance.now() / Date.now(); timers fire exactly when due.           *)
(* Confidences and landmark coordinates are integers in units of 0.01.     *)
(***************************************************************************)
EXTENDS Integers, Sequences, FiniteSets, TLC

VARIABLES
  now,      \* the clock (ms since page load)
  sw,       \* useModeSwitcher: refs and state
  nav,      \* useHandNavigation: refs and state
  clf,      \* useGestureClassifier: refs and state
  wb,       \* useWordBuilder: refs, state and timers
  page,     \* KioskPage state, ConfirmationPanel timer, speech synthesizer
  ev,       \* the last operation that ran and what it did (observation only)
  obs       \* history kept for the properties (observation only)

vars == <<now, sw, nav, clf, wb, page, ev, obs>>

----------------------------------------------------------------------------
(* Values *)

NULL == "null"
NoTime == 0 - 1

Modes == {"sign", "spelling", "navigate"}

Min(a, b) == IF a < b THEN a ELSE b
Max(a, b) == IF a > b THEN a ELSE b
Abs(a) == IF a < 0 THEN 0 - a ELSE a

----------------------------------------------------------------------------
(* Hand observations.  A HandFrame is [id, n, lm]: n landmarks were        *)
(* delivered and lm[i] is landmark i, [x, y, z] in units of 0.01; id names  *)
(* the stretch of the input stream the observation was captured in.        *)

Pt(px, py, pz) == [x |-> px, y |-> py, z |-> pz]

\* Landmarks of a hand whose four fingers are curled (tip below PIP joint).
CurledFingers ==
  [i \in 0..20 |->
     IF i \in {8, 12, 16, 20} THEN Pt(50, 60, 0)
     ELSE IF i \in {6, 10, 14, 18} THEN Pt(50, 50, 0)
     ELSE Pt(50, 50, 0)]

\* Landmarks of a hand whose four fingers are extended (tip above PIP joint).
OpenFingers ==
  [i \in 0..20 |->
     IF i \in {8, 12, 16, 20} THEN Pt(50, 20, 0)
     ELSE IF i \in {6, 10, 14, 18} THEN Pt(50, 40, 0)
     ELSE Pt(50, 50, 0)]

WithThumb(lms, ip, tip) == [lms EXCEPT ![3] = ip, ![4] = tip]

\* closed fist: thumb tip nearer the wrist in x than the IP joint, tip not above it
FistHand  == [id |-> 0, n |-> 21, lm |-> WithThumb(CurledFingers, Pt(60, 50, 0), Pt(55, 55, 0))]
\* thumbs up: thumb tip above the IP joint and farther from the wrist in x
ThumbHand == [id |-> 0, n |-> 21, lm |-> WithThumb(CurledFingers, Pt(60, 40, 0), Pt(70, 30, 0))]
\* thumb tucked in x but pointing up in y: satisfies both pose tests
BothHand  == [id |-> 0, n |-> 21, lm |-> WithThumb(CurledFingers, Pt(60, 40, 0), Pt(55, 30, 0))]
\* open palm
OpenHand  == [id |-> 0, n |-> 21, lm |-> WithThumb(OpenFingers, Pt(60, 40, 0), Pt(70, 30, 0))]
\* a malformed observation with fewer than 21 landmarks
ShortHand == [id |-> 0, n |-> 20, lm |-> WithThumb(CurledFingers, Pt(60, 50, 0), Pt(55, 55, 0))]

PoseHands == {FistHand, ThumbHand, OpenHand}

\* the frames of the mode switcher: zero, one or two hands
PoseFrames ==
  {<<>>} \cup {<<h>> : h \in PoseHands}
         \cup {<<h0, h1>> : h0 \in PoseHands, h1 \in PoseHands}

----------------------------------------------------------------------------
(* useModeSwitcher *)

HOLD_DURATION == 1000
TOGGLE_COOLDOWN == 1500

isClosedFist(hand) ==
  IF hand.n < 21 THEN FALSE
  ELSE LET lm == hand.lm
           wrist == lm[0]
           thumbCurled == Abs(lm[4].x - wrist.x) < Abs(lm[3].x - wrist.x)
           indexCurled == lm[8].y > lm[6].y
           middleCurled == lm[12].y > lm[10].y
           ringCurled == lm[16].y > lm[14].y
           pinkyCurled == lm[20].y > lm[18].y
       IN thumbCurled /\ indexCurled /\ middleCurled /\ ringCurled /\ pinkyCurled

isThumbsUp(hand) ==
  IF hand.n < 21 THEN FALSE
  ELSE LET lm == hand.lm
           thumbExtended == lm[4].y < lm[3].y
           indexCurled == lm[8].y > lm[6].y
           middleCurled == lm[12].y > lm[10].y
           ringCurled == lm[16].y > lm[14].y
           pinkyCurled == lm[20].y > lm[18].y
       IN thumbExtended /\ indexCurled /\ middleCurled /\ ringCurled /\ pinkyCurled

detectGestureTarget(hands) ==
  IF Len(hands) < 2 THEN NULL
  ELSE LET h0Fist == isClosedFist(hands[1])
           h1Fist == isClosedFist(hands[2])
           h0Thumb == isThumbsUp(hands[1])
           h1Thumb == isThumbsUp(hands[2])
       IN IF h0Fist /\ h1Fist THEN "navigate"
          ELSE IF h0Thumb /\ h1Thumb THEN "spelling"
          ELSE IF (h0Fist /\ h1Thumb) \/ (h0Thumb /\ h1Fist) THEN "sign"
          ELSE NULL

\* useModeSwitcher(): state after construction.  holdProgress is kept as
\* progress * HOLD_DURATION, i.e. min(elapsed, HOLD_DURATION).
SwInit ==
  [mode |-> "sign", holdProgress |-> 0, isHolding |-> FALSE, holdTarget |-> NULL,
   holdStartRef |-> NoTime, lastToggleRef |-> 0, holdTargetRef |-> NULL]

\* the five assignments that drop a hold
clearHold(s) ==
  [s EXCEPT !.holdStartRef = NoTime, !.holdTargetRef = NULL,
            !.holdProgress = 0, !.isHolding = FALSE, !.holdTarget = NULL]

setModeManual_keepsHold(s, target, t) ==
  [s EXCEPT !.mode = target, !.lastToggleRef = t]

setModeManual_keepsCooldown(s, target, t) ==
  [clearHold(s) EXCEPT !.mode = target]

setModeManual(s, target, t) ==
  [clearHold(s) EXCEPT !.mode = target, !.lastToggleRef = t]

inCooldown_never(s, t) == FALSE

\* "Respect cooldown"
inCooldown(s, t) == t - s.lastToggleRef < TOGGLE_COOLDOWN

holdStartFor_keepsOnChange(s, target, t) ==
  IF s.holdStartRef = NoTime THEN t ELSE s.holdStartRef

\* the start of the hold after a frame showing a valid target
holdStartFor(s, target, t) ==
  IF s.holdStartRef = NoTime \/ s.holdTargetRef # target THEN t ELSE s.holdStartRef

checkModeGesture_commitsAtOnce(s, hands, t) ==
  IF inCooldown(s, t)
  THEN IF s.holdStartRef # NoTime THEN clearHold(s) ELSE s
  ELSE LET target == detectGestureTarget(hands)
           isValidTarget == target # NULL /\ target # s.mode
       IN IF isValidTarget
          THEN [clearHold(s) EXCEPT !.mode = target, !.lastToggleRef = t]
          ELSE IF s.holdStartRef # NoTime THEN clearHold(s) ELSE s

checkModeGesture(s, hands, t) ==
  IF inCooldown(s, t)
  THEN IF s.holdStartRef # NoTime THEN clearHold(s) ELSE s
  ELSE LET target == detectGestureTarget(hands)
           isValidTarget == target # NULL /\ target # s.mode
       IN IF isValidTarget
          THEN LET start == holdStartFor(s, target, t)
                   elapsed == t - start
                   progress == Min(elapsed, HOLD_DURATION)
               IN IF progress >= HOLD_DURATION
                  THEN [clearHold(s) EXCEPT !.mode = target, !.lastToggleRef = t]
                  ELSE [s EXCEPT !.holdStartRef = start, !.holdTargetRef = target,
                                 !.holdProgress = progress, !.isHolding = TRUE,
                                 !.holdTarget = target]
          ELSE IF s.holdStartRef # NoTime THEN clearHold(s) ELSE s

----------------------------------------------------------------------------
(* useHandNavigation *)

PINCH_THRESHOLD == 6
CLICK_COOLDOWN == 600
SMOOTH_FACTOR == 25

\* window.innerWidth / window.innerHeight of the kiosk display
InnerWidth == 32
InnerHeight == 16

CursorInit ==
  [x |-> 0, y |-> 0, isPinching |-> FALSE, isHovering |-> FALSE, visible |-> FALSE]

\* useHandNavigation(): state after construction.  marked is the set of
\* elements carrying the data-hand-hover attribute.
NavInit ==
  [cursorRef |-> CursorInit, cursorState |-> CursorInit,
   smoothX |-> 0, smoothY |-> 0, initialised |-> FALSE,
   lastClickTime |-> 0, hoveredElement |-> NULL, wasPinching |-> FALSE,
   marked |-> {}]

\* thumb-tip to index-tip distance below the threshold (squares compared)
pinchDetected(hand) ==
  LET dx == hand.lm[4].x - hand.lm[8].x
      dy == hand.lm[4].y - hand.lm[8].y
      dz == hand.lm[4].z - hand.lm[8].z
  IN dx * dx + dy * dy + dz * dz < PINCH_THRESHOLD * PINCH_THRESHOLD

\* one step of the exponential smoothing
smoothStep(prev, raw) == prev + ((raw - prev) * (100 - SMOOTH_FACTOR)) \div 100

clickFires_noEdge(n, isPinching, navTarget, t) ==
  isPinching /\ t - n.lastClickTime > CLICK_COOLDOWN /\ navTarget # NULL

clickFires_noCooldown(n, isPinching, navTarget, t) ==
  isPinching /\ ~n.wasPinching /\ navTarget # NULL

\* "Pinch -> click": the condition under which the three events are dispatched
clickFires(n, isPinching, navTarget, t) ==
  isPinching /\ ~n.wasPinching /\ t - n.lastClickTime > CLICK_COOLDOWN /\ navTarget # NULL

\* "Map normalised MediaPipe coords -> screen coords (mirrored)"
mappedX(hand) == ((100 - hand.lm[8].x) * InnerWidth) \div 100
mappedY(hand) == (hand.lm[8].y * InnerHeight) \div 100

updateFromHands_keepsSmoothing(n, hands, isEnabled, under, t) ==
  IF ~isEnabled \/ Len(hands) = 0
  THEN LET hidden == [n.cursorRef EXCEPT !.visible = FALSE, !.isPinching = FALSE,
                                         !.isHovering = FALSE]
           n1 == IF n.cursorRef.visible
                 THEN [n EXCEPT !.cursorRef = hidden, !.cursorState = hidden]
                 ELSE n
           n2 == IF n1.hoveredElement # NULL
                 THEN [n1 EXCEPT !.marked = @ \ {n1.hoveredElement},
                                 !.hoveredElement = NULL]
                 ELSE n1
       IN n2
  ELSE LET hand == hands[1] IN
       IF hand.n <= 8 THEN n
       ELSE LET indexTip == hand.lm[8]
                rawX == ((100 - indexTip.x) * InnerWidth) \div 100
                rawY == (indexTip.y * InnerHeight) \div 100
                cx == IF ~n.initialised THEN rawX ELSE smoothStep(n.smoothX, rawX)
                cy == IF ~n.initialised THEN rawY ELSE smoothStep(n.smoothY, rawY)
                isPinching == pinchDetected(hand)
                navTarget == under
                marked == IF navTarget # n.hoveredElement
                          THEN (n.marked \ {n.hoveredElement})
                                 \cup (IF navTarget # NULL THEN {navTarget} ELSE {})
                          ELSE n.marked
                isHovering == navTarget # NULL
                fires == clickFires(n, isPinching, navTarget, t)
                prev == n.cursorRef
                cur == [x |-> cx, y |-> cy, isPinching |-> isPinching,
                        isHovering |-> isHovering, visible |-> TRUE]
            IN [n EXCEPT
                  !.smoothX = cx, !.smoothY = cy, !.initialised = TRUE,
                  !.marked = marked, !.hoveredElement = navTarget,
                  !.lastClickTime = IF fires THEN t ELSE @,
                  !.wasPinching = isPinching,
                  !.cursorRef = cur,
                  !.cursorState = IF ~prev.visible \/ prev.isPinching # isPinching
                                     \/ prev.isHovering # isHovering
                                  THEN cur ELSE @]

\* under: the element matching the selector under the smoothed cursor position
\* (document.elementFromPoint(cx, cy)?.closest(selector)), or NULL.
updateFromHands(n, hands, isEnabled, under, t) ==
  IF ~isEnabled \/ Len(hands) = 0
  THEN LET hidden == [n.cursorRef EXCEPT !.visible = FALSE, !.isPinching = FALSE,
                                         !.isHovering = FALSE]
           n1 == IF n.cursorRef.visible
                 THEN [n EXCEPT !.cursorRef = hidden, !.cursorState = hidden]
                 ELSE n
           n2 == IF n1.hoveredElement # NULL
                 THEN [n1 EXCEPT !.marked = @ \ {n1.hoveredElement},
                                 !.hoveredElement = NULL]
                 ELSE n1
       IN [n2 EXCEPT !.initialised = FALSE]
  ELSE LET hand == hands[1] IN
       IF hand.n <= 8 THEN n
       ELSE LET indexTip == hand.lm[8]
                rawX == ((100 - indexTip.x) * InnerWidth) \div 100
                rawY == (indexTip.y * InnerHeight) \div 100
                cx == IF ~n.initialised THEN rawX ELSE smoothStep(n.smoothX, rawX)
                cy == IF ~n.initialised THEN rawY ELSE smoothStep(n.smoothY, rawY)
                isPinching == pinchDetected(hand)
                navTarget == under
                marked == IF navTarget # n.hoveredElement
                          THEN (n.marked \ {n.hoveredElement})
                                 \cup (IF navTarget # NULL THEN {navTarget} ELSE {})
                          ELSE n.marked
                isHovering == navTarget # NULL
                fires == clickFires(n, isPinching, navTarget, t)
                prev == n.cursorRef
                cur == [x |-> cx, y |-> cy, isPinching |-> isPinching,
                        isHovering |-> isHovering, visible |-> TRUE]
            IN [n EXCEPT
                  !.smoothX = cx, !.smoothY = cy, !.initialised = TRUE,
                  !.marked = marked, !.hoveredElement = navTarget,
                  !.lastClickTime = IF fires THEN t ELSE @,
                  !.wasPinching = isPinching,
                  !.cursorRef = cur,
                  !.cursorState = IF ~prev.visible \/ prev.isPinching # isPinching
                                     \/ prev.isHovering # isHovering
                                  THEN cur ELSE @]

\* the element on which updateFromHands dispatches pointerdown, pointerup and
\* click during the call, or NULL when it dispatches nothing
clickedBy(n, hands, isEnabled, under, t) ==
  IF ~isEnabled \/ Len(hands) = 0 THEN NULL
  ELSE IF hands[1].n <= 8 THEN NULL
  ELSE IF clickFires(n, pinchDetected(hands[1]), under, t) THEN under ELSE NULL

----------------------------------------------------------------------------
(* config: vocabulary and defaults *)

\* DEFAULT_CONFIG.confidenceThreshold (0.45) and DEFAULT_CONFIG.sequenceLength
confidenceThreshold == 45
sequenceLength == 30

\* SIGN_VOCABULARY: of the 59 entries, the ones that are routed differently
\* (two signs, "unknown", two letters, the three mode labels).
SIGN_VOCABULARY ==
  << [label |-> "hello", textEn |-> "Hello", textFil |-> "Kamusta"],
     [label |-> "thank_you", textEn |-> "Thank you", textFil |-> "Salamat"],
     [label |-> "unknown", textEn |-> "Unknown", textFil |-> "Hindi malinaw"],
     [label |-> "letter_a", textEn |-> "A", textFil |-> "A"],
     [label |-> "letter_b", textEn |-> "B", textFil |-> "B"],
     [label |-> "mode_navigate", textEn |-> "Navigate Mode", textFil |-> "Navigation"],
     [label |-> "mode_spelling", textEn |-> "Spelling Mode", textFil |-> "Spelling"],
     [label |-> "mode_sign", textEn |-> "Motion Model Mode", textFil |-> "Motion Model"] >>

getTranslation_alwaysEnglish(label, language) ==
  LET found == {i \in 1..Len(SIGN_VOCABULARY) : SIGN_VOCABULARY[i].label = label}
  IN IF found = {} THEN label
     ELSE SIGN_VOCABULARY[CHOOSE i \in found : \A j \in found : i <= j].textEn

getTranslation(label, language) ==
  LET found == {i \in 1..Len(SIGN_VOCABULARY) : SIGN_VOCABULARY[i].label = label}
  IN IF found = {} THEN label
     ELSE LET item == SIGN_VOCABULARY[CHOOSE i \in found : \A j \in found : i <= j]
          IN IF language = "en" THEN item.textEn ELSE item.textFil

CLASS_LABELS == [i \in 1..Len(SIGN_VOCABULARY) |-> SIGN_VOCABULARY[i].label]

\* landmarks per hand, hands tracked, and the per-frame input width the model
\* is warmed up with: tf.zeros([1, sequenceLength, FEATURES_PER_FRAME])
NUM_LANDMARKS == 21
NUM_HANDS == 2
FEATURES_PER_FRAME == NUM_HANDS * NUM_LANDMARKS * 3

----------------------------------------------------------------------------
(* useGestureClassifier *)

NoGesture == [label |-> NULL, confidence |-> 0, source |-> NULL]
NoModel == [loaded |-> FALSE, classes |-> 0]

\* useGestureClassifier(): state after construction
ClfInit ==
  [modelRef |-> NoModel, modelLabelsRef |-> CLASS_LABELS, bufferRef |-> <<>>,
   isClassifyingRef |-> FALSE, isModelLoaded |-> FALSE, modelError |-> FALSE,
   modelInfo |-> FALSE, lastGesture |-> NoGesture]

loadModel_keepsLabels(c, fetched, ok, numOutputClasses) ==
  LET c1 == IF Len(fetched) > 0 THEN [c EXCEPT !.modelLabelsRef = fetched] ELSE c
  IN IF ~ok
     THEN [c1 EXCEPT !.modelError = TRUE, !.isModelLoaded = FALSE]
     ELSE [c1 EXCEPT !.modelInfo = IF numOutputClasses <= 2 THEN TRUE ELSE @,
                     !.modelRef = [loaded |-> TRUE, classes |-> numOutputClasses],
                     !.isModelLoaded = TRUE, !.modelError = FALSE]

\* loadModel: fetched is the label list of labels.json, or <<>> when it could
\* not be used; ok says whether tf.loadLayersModel and the warm-up succeeded;
\* numOutputClasses is the last dimension of the model's output shape.
loadModel(c, fetched, ok, numOutputClasses) ==
  LET c1 == IF Len(fetched) > 0 THEN [c EXCEPT !.modelLabelsRef = fetched] ELSE c
  IN IF ~ok
     THEN [c1 EXCEPT !.modelError = TRUE, !.isModelLoaded = FALSE]
     ELSE LET labels == IF numOutputClasses < Len(c1.modelLabelsRef)
                        THEN SubSeq(c1.modelLabelsRef, 1, numOutputClasses)
                        ELSE c1.modelLabelsRef
          IN [c1 EXCEPT !.modelLabelsRef = labels,
                        !.modelInfo = IF numOutputClasses <= 2 THEN TRUE ELSE @,
                        !.modelRef = [loaded |-> TRUE, classes |-> numOutputClasses],
                        !.isModelLoaded = TRUE, !.modelError = FALSE]

\* a feature vector is represented by its length (three numbers per landmark)
\* and the identity of the observation it encodes
handFrameToFeatures(hand) == [len |-> 3 * hand.n, id |-> hand.id]

\* bufferRef.current.slice(-sequenceLength)
lastN(buf, k) == IF Len(buf) > k THEN SubSeq(buf, Len(buf) - k + 1, Len(buf)) ELSE buf

pushFrame_noEvict(c, hands) ==
  IF Len(hands) = 0 THEN c
  ELSE [c EXCEPT !.bufferRef = Append(@, handFrameToFeatures(hands[1]))]

pushFrame(c, hands) ==
  IF Len(hands) = 0 THEN c
  ELSE LET pushed == Append(c.bufferRef, handFrameToFeatures(hands[1]))
       IN [c EXCEPT !.bufferRef = IF Len(pushed) > sequenceLength
                                  THEN lastN(pushed, sequenceLength) ELSE pushed]

classifyProceeds_reentrant(c) ==
  c.modelRef.loaded /\ ~(Len(c.bufferRef) < sequenceLength)

\* the guard at the head of classify(): FALSE when the call returns null at once
classifyProceeds(c) ==
  ~(~c.modelRef.loaded \/ Len(c.bufferRef) < sequenceLength \/ c.isClassifyingRef)

\* classify() up to the model call
classifyStart(c) ==
  IF classifyProceeds(c) THEN [c EXCEPT !.isClassifyingRef = TRUE] ELSE c

classifyResult_noThreshold(c, outcome) ==
  IF outcome.throws THEN NoGesture
  ELSE IF outcome.maxIdx >= Len(c.modelLabelsRef) THEN NoGesture
  ELSE [label |-> c.modelLabelsRef[outcome.maxIdx + 1],
        confidence |-> outcome.confidence, source |-> "lstm"]

\* the GestureResult classify() passes to onGestureDetected, or NoGesture.
\* outcome: the model call threw, or maxIdx (0-based) and its confidence.
classifyResult(c, outcome) ==
  IF outcome.throws THEN NoGesture
  ELSE IF outcome.maxIdx >= Len(c.modelLabelsRef) THEN NoGesture
  ELSE IF outcome.confidence >= confidenceThreshold
       THEN [label |-> c.modelLabelsRef[outcome.maxIdx + 1],
             confidence |-> outcome.confidence, source |-> "lstm"]
       ELSE NoGesture

classifyDemo_sample == [label |-> "hello", confidence |-> 60, source |-> "demo"]

\* classifyDemo(): "In demo mode (no model loaded), we don't generate fake
\* predictions."
classifyDemo == NoGesture

classifyFinish_noFinally(c, outcome) ==
  LET gesture == classifyResult(c, outcome)
  IN IF outcome.throws THEN c
     ELSE [c EXCEPT !.lastGesture = IF gesture.label # NULL THEN gesture ELSE @,
                    !.isClassifyingRef = FALSE]

\* classify() from the model call's return to the end of the finally block
classifyFinish(c, outcome) ==
  LET gesture == classifyResult(c, outcome)
  IN [c EXCEPT !.lastGesture = IF gesture.label # NULL THEN gesture ELSE @,
               !.isClassifyingRef = FALSE]

----------------------------------------------------------------------------
(* useWordBuilder.  A timer handle is the time at which the timer is due,   *)
(* NoTime when the ref holds none.                                          *)

AUTO_FINALIZE_DELAY == 3
MIN_LETTER_GAP_MS == 1200
NoCountdown == 0 - 1

\* letters.join("")
RECURSIVE joinLetters(_)
joinLetters(letters) ==
  IF Len(letters) = 0 THEN "" ELSE Head(letters) \o joinLetters(Tail(letters))

\* letterLabel.replace("letter_", "").toUpperCase(), for the labels of the
\* vocabulary; any other label is left without its single-character form
LetterChars == [letter_a |-> "A", letter_b |-> "B"]
charOf(letterLabel) ==
  IF letterLabel \in DOMAIN LetterChars THEN LetterChars[letterLabel] ELSE letterLabel
isSingleChar(char) == char \in {LetterChars[l] : l \in DOMAIN LetterChars}

WbNoWord == [letters |-> <<>>, word |-> "", isSpelling |-> FALSE, countdown |-> NoCountdown]

\* useWordBuilder(): state after construction.  remaining is the counter
\* captured by the running countdown interval; timeouts holds the due times
\* of the auto-finalize timeouts that were created by setTimeout and have
\* neither fired nor been cleared (timerRef is the handle of the last one
\* created).
WbInit ==
  [lettersRef |-> <<>>, lastLetterTimeRef |-> 0, lastLetterRef |-> "",
   timerRef |-> NoTime, countdownIntervalRef |-> NoTime, remaining |-> 0,
   timeouts |-> {}, state |-> WbNoWord]

syncState(w) ==
  [w EXCEPT !.state =
     [letters |-> w.lettersRef, word |-> joinLetters(w.lettersRef),
      isSpelling |-> Len(w.lettersRef) > 0,
      countdown |-> IF Len(w.lettersRef) > 0 THEN AUTO_FINALIZE_DELAY ELSE NoCountdown]]

clearTimers(w) ==
  [w EXCEPT !.timeouts = @ \ {w.timerRef},
            !.timerRef = NoTime, !.countdownIntervalRef = NoTime]

\* the word finalizeWord passes to onWordComplete, "" when it does not call it
finalizeEmits(w) == joinLetters(w.lettersRef)

finalizeWord_keepsTimers(w) ==
  [w EXCEPT !.lettersRef = <<>>, !.lastLetterRef = "",
            !.lastLetterTimeRef = 0, !.state = WbNoWord]

finalizeWord(w) ==
  [clearTimers(w) EXCEPT !.lettersRef = <<>>, !.lastLetterRef = "",
                         !.lastLetterTimeRef = 0, !.state = WbNoWord]

restartCountdown_keepsTimer(w, t) ==
  [w EXCEPT !.remaining = AUTO_FINALIZE_DELAY,
            !.state.countdown = AUTO_FINALIZE_DELAY,
            !.countdownIntervalRef = IF @ = NoTime THEN t + 1000 ELSE @,
            !.timerRef = IF @ = NoTime THEN t + AUTO_FINALIZE_DELAY * 1000 ELSE @,
            !.timeouts = IF w.timerRef = NoTime
                         THEN @ \cup {t + AUTO_FINALIZE_DELAY * 1000} ELSE @]

restartCountdown_noClear(w, t) ==
  [w EXCEPT !.remaining = AUTO_FINALIZE_DELAY,
            !.state.countdown = AUTO_FINALIZE_DELAY,
            !.countdownIntervalRef = t + 1000,
            !.timerRef = t + AUTO_FINALIZE_DELAY * 1000,
            !.timeouts = @ \cup {t + AUTO_FINALIZE_DELAY * 1000}]

restartCountdown(w, t) ==
  [clearTimers(w) EXCEPT !.remaining = AUTO_FINALIZE_DELAY,
                         !.state.countdown = AUTO_FINALIZE_DELAY,
                         !.countdownIntervalRef = t + 1000,
                         !.timerRef = t + AUTO_FINALIZE_DELAY * 1000,
                         !.timeouts = @ \cup {t + AUTO_FINALIZE_DELAY * 1000}]

\* the callback of the countdown interval
countdownTick(w) ==
  [w EXCEPT !.remaining = @ - 1,
            !.state.countdown = Max(0, w.remaining - 1),
            !.countdownIntervalRef = @ + 1000]

\* the callback of the auto-finalize timeout that was due at t
autoFinalize(w, t) ==
  finalizeWord([w EXCEPT !.timeouts = @ \ {t}, !.countdownIntervalRef = NoTime])

\* "Debounce -- don't accept the exact same letter too fast"
tooSoon(w, char, t) ==
  char = w.lastLetterRef /\ t - w.lastLetterTimeRef < MIN_LETTER_GAP_MS

addLetter(w, letterLabel, t) ==
  LET char == charOf(letterLabel)
  IN IF ~isSingleChar(char) THEN w
     ELSE IF tooSoon(w, char, t) THEN restartCountdown(w, t)
     ELSE restartCountdown(
            syncState([w EXCEPT !.lastLetterRef = char, !.lastLetterTimeRef = t,
                                !.lettersRef = Append(@, char)]), t)

deleteLast_keepsTimers(w, t) ==
  IF Len(w.lettersRef) = 0 THEN w
  ELSE LET popped == [w EXCEPT !.lettersRef = SubSeq(@, 1, Len(@) - 1)]
       IN IF Len(popped.lettersRef) = 0
          THEN [popped EXCEPT !.lastLetterRef = "",
                              !.lastLetterTimeRef = 0, !.state = WbNoWord]
          ELSE restartCountdown(syncState(popped), t)

deleteLast(w, t) ==
  IF Len(w.lettersRef) = 0 THEN w
  ELSE LET popped == [w EXCEPT !.lettersRef = SubSeq(@, 1, Len(@) - 1)]
       IN IF Len(popped.lettersRef) = 0
          THEN [clearTimers(popped) EXCEPT !.lastLetterRef = "",
                                           !.lastLetterTimeRef = 0, !.state = WbNoWord]
          ELSE restartCountdown(syncState(popped), t)

cancelWord(w) ==
  [clearTimers(w) EXCEPT !.lettersRef = <<>>, !.lastLetterRef = "",
                         !.lastLetterTimeRef = 0, !.state = WbNoWord]

----------------------------------------------------------------------------
(* KioskPage: state and the routing of classifier results *)

SPELLING_CONFIDENCE_THRESHOLD == 75
LETTER_STREAK_REQUIRED == 3
LETTER_STREAK_WINDOW_MS == 900
NoConfidence == 0 - 1

confirmationDelay == 2

NoStreak == [label |-> "", count |-> 0, lastTime |-> 0]

\* useSpeechOutput(): the utterance handed to the synthesizer and its phase
NoUtterance == [text |-> "", lang |-> "", phase |-> "none"]
SpeechInit == [isSpeaking |-> FALSE, isSupported |-> TRUE, utterance |-> NoUtterance]

\* ConfirmationPanel(): countdown state and the handle of its interval
PanelInit == [countdown |-> confirmationDelay, intervalRef |-> NoTime]

ModeLabels == {"mode_navigate", "mode_spelling", "mode_sign"}
\* the mode a mode label switches to
modeOfLabel(label) ==
  IF label = "mode_navigate" THEN "navigate"
  ELSE IF label = "mode_spelling" THEN "spelling" ELSE "sign"

\* result.label.startsWith("letter_")
isLetterShaped(label) == label \in DOMAIN LetterChars

\* useHandTracker(): state after construction
TrackerInit == [isLoading |-> TRUE, isTracking |-> FALSE, error |-> NULL]

\* initialize(): ok says whether the wasm files and the landmarker loaded
initialize(tr, ok) ==
  IF ok THEN [tr EXCEPT !.isLoading = FALSE, !.error = NULL]
  ELSE [tr EXCEPT !.isLoading = FALSE, !.error = "Failed to initialize hand tracker"]

\* startTracking(): ok says whether getUserMedia and video.play() succeeded
startTracking(tr, ok) ==
  IF ok THEN [tr EXCEPT !.isTracking = TRUE]
  ELSE [tr EXCEPT !.error = "Failed to access webcam"]

\* KioskPage(): state after construction.  classifyIntervalRef tells whether the
\* ref holds the handle of a classification interval, classifyIntervals counts
\* the classification intervals that were created by setInterval and not
\* cleared; panel, speech and tracker are the states of ConfirmationPanel,
\* useSpeechOutput and useHandTracker.
PageInit ==
  [status |-> "initializing", language |-> "en", transcript |-> <<>>,
   pendingText |-> NULL, pendingLabel |-> NULL, currentTranslation |-> NULL,
   confidence |-> NoConfidence, spellingNotice |-> NULL,
   letterStreakRef |-> NoStreak,
   classifyIntervalRef |-> FALSE, classifyIntervals |-> 0,
   spellingNoticeTimerRef |-> NoTime,
   speech |-> SpeechInit, panel |-> PanelInit, tracker |-> TrackerInit]

\* the bundle of hooks a KioskPage callback works on; fresh is set when the
\* callback stored a new object in React state
World == [sw |-> sw, nav |-> nav, clf |-> clf, wb |-> wb, page |-> page, fresh |-> FALSE]

onWordComplete(p, word) ==
  [p EXCEPT !.currentTranslation = word, !.confidence = NoConfidence,
            !.pendingText = word, !.pendingLabel = "spelled:" \o word,
            !.status = "confirming"]

streakContinues(streak, label, t) ==
  label = streak.label /\ t - streak.lastTime <= LETTER_STREAK_WINDOW_MS

passesSpellingThreshold(result) == ~(result.confidence < SPELLING_CONFIDENCE_THRESHOLD)

spellLetter_lowResets(w, result, t) ==
  IF ~passesSpellingThreshold(result)
  THEN [w EXCEPT !.page.spellingNotice = "Hold the letter steady for clearer detection.",
                 !.page.letterStreakRef = NoStreak]
  ELSE LET streak == w.page.letterStreakRef
           counted == IF streakContinues(streak, result.label, t)
                      THEN [streak EXCEPT !.count = @ + 1, !.lastTime = t]
                      ELSE [label |-> result.label, count |-> 1, lastTime |-> t]
       IN IF counted.count >= LETTER_STREAK_REQUIRED
          THEN [w EXCEPT !.page.letterStreakRef = [counted EXCEPT !.label = "", !.count = 0],
                         !.wb = addLetter(w.wb, result.label, t),
                         !.fresh = TRUE]
          ELSE [w EXCEPT !.page.letterStreakRef = counted]

\* the branch of onGestureDetected for a letter_ label in spelling mode
spellLetter(w, result, t) ==
  IF ~passesSpellingThreshold(result)
  THEN [w EXCEPT !.page.spellingNotice = "Hold the letter steady for clearer detection."]
  ELSE LET streak == w.page.letterStreakRef
           counted == IF streakContinues(streak, result.label, t)
                      THEN [streak EXCEPT !.count = @ + 1, !.lastTime = t]
                      ELSE [label |-> result.label, count |-> 1, lastTime |-> t]
       IN IF counted.count >= LETTER_STREAK_REQUIRED
          THEN [w EXCEPT !.page.letterStreakRef = [counted EXCEPT !.label = "", !.count = 0],
                         !.wb = addLetter(w.wb, result.label, t),
                         !.fresh = TRUE]
          ELSE [w EXCEPT !.page.letterStreakRef = counted]

\* the body of onGestureDetected; mode and language are the values captured
\* by the callback when the page rendered (useCallback [language, addLetter,
\* mode, setModeManual])
routeGesture(w, mode, language, result, t) ==
  IF result.label \in ModeLabels
  THEN IF mode # modeOfLabel(result.label)
       THEN [w EXCEPT !.sw = setModeManual(w.sw, modeOfLabel(result.label), t)]
       ELSE w
  ELSE IF isLetterShaped(result.label)
  THEN IF mode = "spelling" THEN spellLetter(w, result, t) ELSE w
  ELSE IF result.label = "unknown"
  THEN IF mode = "spelling"
       THEN [w EXCEPT !.page.spellingNotice = "No clear letter detected."]
       ELSE IF mode = "sign"
       THEN [w EXCEPT !.page.currentTranslation = "Unknown sign",
                      !.page.confidence = result.confidence]
       ELSE w
  ELSE IF mode = "spelling"
  THEN [w EXCEPT !.page.spellingNotice = "Spelling mode accepts letters only."]
  ELSE LET text == getTranslation(result.label, language)
       IN [w EXCEPT !.page.currentTranslation = text,
                    !.page.confidence = result.confidence,
                    !.page.pendingText = text,
                    !.page.pendingLabel = result.label,
                    !.page.status = "confirming"]

\* onGestureDetected as created by the render that saw w
onGestureDetected(w, result, t) ==
  routeGesture(w, w.sw.mode, w.page.language, result, t)

cancelOnModeExit_never(w0, w) == w

\* useEffect [mode, isSpelling, cancelWord]: "Cancel any in-progress spelling
\* when leaving spelling mode"; w0 is the bundle at the previous render
cancelOnModeExit(w0, w) ==
  IF /\ (w.sw.mode # w0.sw.mode \/ w.wb.state.isSpelling # w0.wb.state.isSpelling)
     /\ w.sw.mode # "spelling" /\ w.wb.state.isSpelling
  THEN [w EXCEPT !.wb = cancelWord(@), !.fresh = TRUE]
  ELSE w

\* useEffect [mode]: clears the notice and the letter streak outside spelling
resetSpellingOnModeChange(w0, w) ==
  IF w.sw.mode # w0.sw.mode /\ w.sw.mode # "spelling"
  THEN [w EXCEPT !.page.spellingNotice = NULL, !.page.letterStreakRef = NoStreak]
  ELSE w

modeEffects(w0, w) == resetSpellingOnModeChange(w0, cancelOnModeExit(w0, w))

\* the values KioskPage renders from; a handler that changes one of them, or
\* stores a new object, makes the page render again
ReactState(w) ==
  << w.sw.mode, w.sw.holdProgress, w.sw.isHolding, w.sw.holdTarget,
     w.page.status, w.page.language, w.page.transcript, w.page.pendingText,
     w.page.pendingLabel, w.page.currentTranslation, w.page.confidence,
     w.page.spellingNotice, w.page.speech.isSpeaking, w.page.speech.isSupported,
     w.clf.isModelLoaded, w.clf.modelError, w.clf.modelInfo, w.clf.lastGesture,
     w.nav.cursorState, w.wb.state, w.page.tracker >>

rendered(w0, w) == w.fresh \/ ReactState(w) # ReactState(w0)

\* useEffect [spellingNotice]: a new notice (re)arms its 1200 ms timer
noticeEffect(w0, w, t) ==
  IF w.page.spellingNotice # NULL /\ w.page.spellingNotice # w0.page.spellingNotice
  THEN [w EXCEPT !.page.spellingNoticeTimerRef = t + 1200]
  ELSE w

\* what the effect on [status, classify] depends on: classify is re-created
\* with onGestureDetected (useCallback [language, addLetter, mode,
\* setModeManual], the two callbacks being stable)
classifyDeps(w) == <<w.page.status, w.sw.mode, w.page.language>>

classifyEffect_noCleanup(w0, w) ==
  IF classifyDeps(w) = classifyDeps(w0) THEN w
  ELSE IF w.page.status = "detecting"
  THEN [w EXCEPT !.page.classifyIntervalRef = TRUE,
                 !.page.classifyIntervals = @ + 1]
  ELSE [w EXCEPT !.page.classifyIntervalRef = FALSE,
                 !.page.classifyIntervals =
                    IF w.page.classifyIntervalRef THEN @ - 1 ELSE @]

\* useEffect [status, classify]: when a dependency changed, the cleanup of
\* the previous run clears the interval the ref holds; then the effect
\* creates an interval if status is "detecting", and otherwise clears the
\* ref's (already cleared) interval and sets the ref to null
classifyEffect(w0, w) ==
  IF classifyDeps(w) = classifyDeps(w0) THEN w
  ELSE IF w.page.status = "detecting"
  THEN [w EXCEPT !.page.classifyIntervalRef = TRUE,
                 !.page.classifyIntervals =
                    (IF w.page.classifyIntervalRef THEN @ - 1 ELSE @) + 1]
  ELSE [w EXCEPT !.page.classifyIntervalRef = FALSE,
                 !.page.classifyIntervals =
                    IF w.page.classifyIntervalRef THEN @ - 1 ELSE @]

panelEffect_keepsInterval(w0, w, t) ==
  IF ~rendered(w0, w) \/ w.page.pendingText = NULL THEN w
  ELSE [w EXCEPT !.page.panel = [countdown |-> confirmationDelay,
                                 intervalRef |-> t + 1000]]

\* ConfirmationPanel useEffect [text, delaySeconds, onConfirm].  onConfirm is
\* handleConfirm, which depends on speak, which depends on the onStart and onEnd
\* closures KioskPage creates on every render: each render of the page runs
\* the cleanup and the effect again.
panelEffect(w0, w, t) ==
  IF ~rendered(w0, w) THEN w
  ELSE IF w.page.pendingText = NULL
  THEN [w EXCEPT !.page.panel.intervalRef = NoTime]
  ELSE [w EXCEPT !.page.panel = [countdown |-> confirmationDelay,
                                 intervalRef |-> t + 1000]]

\* the render that follows a handler and the effects it runs; w0 is the bundle
\* the previous render saw
settle(w0, w, t) ==
  LET w1 == modeEffects(w0, w)
      w2 == classifyEffect(w0, noticeEffect(w0, w1, t))
  IN [panelEffect(w0, w2, t) EXCEPT !.fresh = FALSE]

statusFor_handsOnly(hands, isSpelling) ==
  IF Len(hands) > 0 THEN "detecting" ELSE "ready"

\* "During spelling, stay in 'detecting' so the classifier keeps running"
statusFor(hands, isSpelling) ==
  IF Len(hands) > 0 THEN "detecting" ELSE IF isSpelling THEN "detecting" ELSE "ready"

\* checkModeGesture as created by the render that saw the given mode
\* (useCallback [mode]): the candidate is compared with that mode, and the
\* mode is set only when a hold completes
modeUnlessSet(g, mode, current) ==
  IF g.mode # mode THEN g ELSE [g EXCEPT !.mode = current]

checkModeGestureSeen(s, mode, hands, t) ==
  modeUnlessSet(checkModeGesture([s EXCEPT !.mode = mode], hands, t), mode, s.mode)

\* the body of onHandResults; mode, status, isHolding and isSpelling are the
\* values captured by the callback when the page rendered, seen is the bundle
\* that render saw (useCallback [pushFrame, status, isSpelling, updateNav,
\* mode, checkModeGesture, isHolding])
handleFrame(w, seen, hands, under, t) ==
  LET w1 == [w EXCEPT !.sw = checkModeGestureSeen(w.sw, seen.sw.mode, hands, t),
                      !.clf = pushFrame(w.clf, hands)]
      quiet == seen.page.status = "confirming" \/ seen.page.status = "speaking"
  IN IF seen.sw.mode = "navigate"
     THEN LET n == updateFromHands(w.nav, hands, TRUE, under, t)
          IN [w1 EXCEPT !.nav = n,
                        !.fresh = n.cursorState # w.nav.cursorState,
                        !.page.status = IF quiet THEN @
                                        ELSE IF Len(hands) > 0 THEN "detecting"
                                        ELSE "ready"]
     ELSE LET n == updateFromHands(w.nav, <<>>, FALSE, under, t)
              w2 == [w1 EXCEPT !.nav = n, !.fresh = n.cursorState # w.nav.cursorState]
          IN IF quiet \/ seen.sw.isHolding THEN w2
             ELSE [w2 EXCEPT !.page.status = statusFor(hands, seen.wb.state.isSpelling)]

\* onHandResults as created by the render that saw w
onHandResults(w, hands, under, t) == handleFrame(w, w, hands, under, t)

\* speak(text) of useSpeechOutput with the page's language
speak(p, text) ==
  [p EXCEPT !.speech.utterance =
     [text |-> text, lang |-> IF p.language = "fil" THEN "fil" ELSE "en-US",
      phase |-> "queued"]]

\* stop() of useSpeechOutput
stopSpeaking(p) ==
  [p EXCEPT !.speech.isSpeaking = FALSE,
            !.speech.utterance.phase =
               IF @ \in {"queued", "speaking"} THEN "cancelled" ELSE @]

handleConfirm_keepsPending(p, t) ==
  IF p.pendingText = NULL \/ p.pendingLabel = NULL THEN p
  ELSE LET entry == [sign |-> p.pendingLabel, text |-> p.pendingText,
                     language |-> p.language, timestamp |-> t, confirmed |-> TRUE]
       IN [speak(p, p.pendingText) EXCEPT !.transcript = Append(@, entry)]

handleConfirm(p, t) ==
  IF p.pendingText = NULL \/ p.pendingLabel = NULL THEN p
  ELSE LET entry == [sign |-> p.pendingLabel, text |-> p.pendingText,
                     language |-> p.language, timestamp |-> t, confirmed |-> TRUE]
       IN [speak(p, p.pendingText) EXCEPT !.transcript = Append(@, entry),
                                          !.pendingText = NULL,
                                          !.pendingLabel = NULL]

handleCancelConfirmation(p) ==
  [p EXCEPT !.pendingText = NULL, !.pendingLabel = NULL,
            !.currentTranslation = NULL, !.confidence = NoConfidence,
            !.status = "ready"]

toggleLanguage_clearsTranscript(p) ==
  stopSpeaking([p EXCEPT !.language = IF @ = "en" THEN "fil" ELSE "en",
                         !.transcript = <<>>])

toggleLanguage(p) ==
  stopSpeaking([p EXCEPT !.language = IF @ = "en" THEN "fil" ELSE "en"])

\* the callback of the panel's interval
panelTick(p, t) ==
  IF p.panel.countdown <= 1
  THEN [handleConfirm(p, t) EXCEPT !.panel = [countdown |-> 0, intervalRef |-> NoTime]]
  ELSE [p EXCEPT !.panel.countdown = @ - 1, !.panel.intervalRef = @ + 1000]

\* utterance.onstart, utterance.onend and utterance.onerror
onUtteranceStart(p) ==
  [p EXCEPT !.speech.isSpeaking = TRUE, !.speech.utterance.phase = "speaking",
            !.status = "speaking"]

onUtteranceEnd(p) ==
  [p EXCEPT !.speech.isSpeaking = FALSE, !.speech.utterance.phase = "none",
            !.status = "ready"]

onUtteranceError(p) ==
  [p EXCEPT !.speech.isSpeaking = FALSE, !.speech.utterance.phase = "none"]

----------------------------------------------------------------------------
(* Initial state: every hook right after construction, clock at page load. *)

NoRun == [label |-> "", n |-> 0, last |-> 0]

EvInit == [kind |-> "init", committed |-> FALSE]

ObsInit ==
  [lastSwitch |-> NoTime,      \* time of the last committed mode switch
   spanTarget |-> NULL,        \* candidate shown on every frame since spanStart
   spanStart |-> NoTime,
   expectCommit |-> FALSE,     \* the span reached HOLD_DURATION on the last frame
   expectZero |-> FALSE,       \* the last frame began a span or showed no candidate
   poseGap |-> NoTime,         \* last pose commit: time since the switch before it
   prevPinch |-> FALSE,        \* pinch seen on the last frame that showed a hand
   lastClickAt |-> NoTime,     \* time of the last click dispatched
   inFlight |-> 0,             \* classify() calls begun and not yet completed
   noHandCount |-> 0,          \* consecutive frames without a hand, up to SilentFrames
   stretch |-> 0,              \* silent gaps seen so far
   run |-> NoRun,              \* the consecutive detections of one letter so far
   accChar |-> "",             \* last letter appended in the open word session
   accTime |-> NoTime,
   lastActivity |-> NoTime,    \* time of the last appended letter or deletion
   lastRestart |-> NoTime,     \* the same, or of the last debounced duplicate
   calls |-> 0,                \* onWordComplete calls for the latest session
   tickAt |-> NoTime,          \* time of the last classifier result delivered
   confirmStart |-> NoTime,    \* when the pending translation was put up
   frameAt |-> NoTime,         \* time of the last camera frames delivered
   byManual |-> FALSE,         \* the last committed switch was a manual override
   vocabulary |-> CLASS_LABELS, \* the label list loadModel started from
   ended |-> "none",           \* how the latest word session ended, if it has
   afterLoss |-> FALSE]        \* the cursor was shown and the last frame hid it

Init ==
  /\ now = 0
  /\ sw = SwInit
  /\ nav = NavInit
  /\ clf = ClfInit
  /\ wb = WbInit
  /\ page = PageInit
  /\ ev = EvInit
  /\ obs = ObsInit

----------------------------------------------------------------------------
(* The mode state machine on its own: frames, manual overrides, the clock. *)

MaxTimeMode == 5000
ModeSteps == {500}

\* What an observer of the frames alone expects: the candidate checkModeGesture
\* detects on a frame (none while the cooldown since the last switch, or since
\* page load, is running) and the span over which it has been the same.
ObsCandidate(hands, t) ==
  IF t - (IF obs.lastSwitch = NoTime THEN 0 ELSE obs.lastSwitch) < TOGGLE_COOLDOWN
  THEN NULL ELSE detectGestureTarget(hands)

ObsAfterFrame(hands, t, committed) ==
  LET cand == ObsCandidate(hands, t)
      valid == cand # NULL /\ cand # sw.mode
      start == IF valid /\ obs.spanTarget = cand /\ obs.spanStart # NoTime
               THEN obs.spanStart ELSE t
      expect == valid /\ t - start >= HOLD_DURATION
  IN [obs EXCEPT
        !.spanTarget = IF valid /\ ~committed THEN cand ELSE NULL,
        !.spanStart = IF valid /\ ~committed THEN start ELSE NoTime,
        !.expectCommit = expect,
        !.expectZero = ~valid \/ start = t,
        !.lastSwitch = IF committed THEN t ELSE @,
        !.byManual = IF committed THEN FALSE ELSE @,
        !.poseGap = IF committed
                    THEN t - (IF obs.lastSwitch = NoTime THEN 0 ELSE obs.lastSwitch)
                    ELSE @]

ObsAfterManual(t) ==
  [obs EXCEPT !.spanTarget = NULL, !.spanStart = NoTime, !.lastSwitch = t,
              !.expectCommit = FALSE, !.expectZero = FALSE, !.byManual = TRUE]

ModeFrame ==
  \E hands \in PoseFrames :
    LET s2 == checkModeGesture(sw, hands, now)
        committed == s2.mode # sw.mode
    IN /\ sw' = s2
       /\ ev' = [kind |-> "frame", committed |-> committed,
                 shown |-> detectGestureTarget(hands)]
       /\ obs' = ObsAfterFrame(hands, now, committed)
       /\ UNCHANGED <<now, nav, clf, wb, page>>

ModeManual ==
  \E target \in Modes :
    /\ sw' = setModeManual(sw, target, now)
    /\ ev' = [kind |-> "manual", committed |-> TRUE, target |-> target,
              wasHolding |-> sw.isHolding, wasCooling |-> inCooldown(sw, now),
              was |-> sw.mode]
    /\ obs' = ObsAfterManual(now)
    /\ UNCHANGED <<now, nav, clf, wb, page>>

ModeAdvance ==
  \E d \in ModeSteps :
    /\ now + d <= MaxTimeMode
    /\ now' = now + d
    /\ ev' = [kind |-> "advance", committed |-> FALSE]
    /\ UNCHANGED <<sw, nav, clf, wb, page, obs>>

NextMode == ModeFrame \/ ModeManual \/ ModeAdvance

SpecMode == Init /\ [][NextMode]_vars

\* C1: a pose-driven switch commits on a frame exactly when the same candidate
\* target, different from the current mode, has been detected on every frame of
\* a span of at least HOLD_DURATION ms ending at that frame; a frame on which the
\* candidate is absent or different leaves the hold progress at 0 (and, when the
\* candidate is absent, no hold at all).
C1_HoldCommitsIff ==
  ev.kind = "frame" =>
    /\ ev.committed = obs.expectCommit
    /\ (obs.expectZero /\ ~ev.committed) => sw.holdProgress = 0
    /\ (obs.spanTarget = NULL) => (~sw.isHolding /\ sw.holdStartRef = NoTime)
    /\ (obs.spanTarget # NULL) =>
          /\ sw.isHolding /\ sw.holdTarget = obs.spanTarget
          /\ sw.holdProgress = now - obs.spanStart

\* C1 witness: a frame that committed a switch after a full hold.
C1_Witness == ev.kind = "frame" /\ ev.committed /\ obs.expectCommit

\* C1 witness: a hold in progress was restarted by a different candidate.
C1_WitnessRestart ==
  ev.kind = "frame" /\ obs.expectZero /\ obs.spanTarget # NULL /\ now > TOGGLE_COOLDOWN

\* C2: for TOGGLE_COOLDOWN ms after a committed switch (completed hold or
\* setModeManual) there is no hold (isHolding false, holdTarget null, progress
\* 0, no hold start), and no pose-driven switch commits in that window.
C2_CooldownBlocks ==
  /\ (obs.lastSwitch # NoTime /\ now - obs.lastSwitch < TOGGLE_COOLDOWN) =>
        /\ ~sw.isHolding /\ sw.holdTarget = NULL /\ sw.holdProgress = 0
        /\ sw.holdStartRef = NoTime
  /\ (ev.kind = "frame" /\ ev.committed) => obs.poseGap >= TOGGLE_COOLDOWN

\* C2 witness: a frame showing a two-hand pose was processed inside the cooldown
\* that follows a committed switch.
C2_Witness ==
  /\ ev.kind = "frame" /\ ev.shown # NULL /\ ev.shown # sw.mode
  /\ obs.lastSwitch # NoTime
  /\ now - obs.lastSwitch < TOGGLE_COOLDOWN /\ now > obs.lastSwitch

\* C19: setModeManual sets the mode to the requested target at once, whatever
\* hold is in progress and whether or not the cooldown is running, and resets
\* both: afterwards there is no hold (progress 0, no target, no hold start) and
\* the cooldown runs from the moment of the override, so that a pose shown
\* less than TOGGLE_COOLDOWN ms after it starts no hold and a pose shown at
\* least TOGGLE_COOLDOWN ms after it does.
C19_ManualOverrides ==
  /\ ev.kind = "manual" =>
        /\ sw.mode = ev.target
        /\ ~sw.isHolding /\ sw.holdProgress = 0 /\ sw.holdTarget = NULL
        /\ sw.holdStartRef = NoTime /\ sw.holdTargetRef = NULL
  /\ (ev.kind = "frame" /\ obs.byManual /\ ev.shown # NULL /\ ev.shown # sw.mode) =>
        IF now - obs.lastSwitch < TOGGLE_COOLDOWN
        THEN ~sw.isHolding /\ sw.holdStartRef = NoTime
        ELSE sw.isHolding /\ sw.holdTarget = ev.shown

\* C19 witness: an override to another mode arrived while a hold toward a third
\* mode was in progress.
C19_Witness ==
  /\ ev.kind = "manual" /\ ev.wasHolding /\ ev.target # ev.was /\ now >= TOGGLE_COOLDOWN

\* C19 witness: a pose was shown inside the cooldown of an override
\* that came later than the cooldown of page load, and started no hold.
C19_WitnessCooldown ==
  /\ ev.kind = "frame" /\ obs.byManual /\ ev.shown # NULL /\ ev.shown # sw.mode
  /\ obs.lastSwitch >= 2 * TOGGLE_COOLDOWN
  /\ now - obs.lastSwitch < TOGGLE_COOLDOWN /\ now > obs.lastSwitch

----------------------------------------------------------------------------
(* The pose detector on its own: detectGestureTarget applied to frames of   *)
(* zero, one or two hands.  A hand is four fingers (all curled, all open,   *)
(* or the index alone extended), a thumb (tip below its IP joint or above   *)
(* it, nearer to the wrist in x than the joint or farther), and 21          *)
(* landmarks or 20.  The wrist is at x = 50.                                *)

FingerShapes ==
  {CurledFingers, OpenFingers, [CurledFingers EXCEPT ![8] = Pt(50, 20, 0)]}

\* thumb IP joint and tip
ThumbShapes ==
  {<<Pt(60, 50, 0), Pt(55, 55, 0)>>,    \* tip below the joint, nearer the wrist
   <<Pt(60, 50, 0), Pt(70, 55, 0)>>,    \* tip below the joint, farther out
   <<Pt(60, 40, 0), Pt(70, 30, 0)>>,    \* tip above the joint, farther out
   <<Pt(60, 40, 0), Pt(55, 30, 0)>>}    \* tip above the joint, nearer the wrist

ProbeHands ==
  {[id |-> 0, n |-> k, lm |-> WithThumb(f, th[1], th[2])] :
     f \in FingerShapes, th \in ThumbShapes, k \in {20, 21}}

ProbeFrames ==
  {<<>>} \cup {<<h>> : h \in ProbeHands}
         \cup {<<h0, h1>> : h0 \in ProbeHands, h1 \in ProbeHands}

\* hands.reverse() for a frame of two hands
swapHands(hands) == IF Len(hands) = 2 THEN <<hands[2], hands[1]>> ELSE hands

PoseDetect ==
  \E hands \in ProbeFrames :
    /\ ev' = [kind |-> "pose", hands |-> hands,
              target |-> detectGestureTarget(hands),
              swapped |-> detectGestureTarget(swapHands(hands))]
    /\ UNCHANGED <<now, sw, nav, clf, wb, page, obs>>

NextPose == PoseDetect

SpecPose == Init /\ [][NextPose]_vars

\* C29: two fists give navigate, two thumbs-up give spelling, a fist and a
\* thumbs-up in either assignment give sign; fewer than two hands, or a hand
\* matching neither pose, give no candidate; swapping the hands gives the
\* same result.
C29_PoseMapsToMode ==
  ev.kind = "pose" =>
    IF Len(ev.hands) < 2 THEN ev.target = NULL
    ELSE LET h0 == ev.hands[1]
             h1 == ev.hands[2]
         IN /\ (isClosedFist(h0) /\ isClosedFist(h1)) => ev.target = "navigate"
            /\ (isThumbsUp(h0) /\ isThumbsUp(h1)) => ev.target = "spelling"
            /\ \/ isClosedFist(h0) /\ isThumbsUp(h1)
               \/ isThumbsUp(h0) /\ isClosedFist(h1)
               => ev.target = "sign"
            /\ (\E h \in {h0, h1} : ~isClosedFist(h) /\ ~isThumbsUp(h))
                  => ev.target = NULL
            /\ ev.swapped = ev.target

\* the mapping for hands that match exactly one pose
C29_ExclusivePosesMapToMode ==
  (/\ ev.kind = "pose" /\ Len(ev.hands) = 2
   /\ \A i \in 1..2 : ~(isClosedFist(ev.hands[i]) /\ isThumbsUp(ev.hands[i]))) =>
     LET h0 == ev.hands[1]
         h1 == ev.hands[2]
     IN /\ (isClosedFist(h0) /\ isClosedFist(h1)) => ev.target = "navigate"
        /\ (isThumbsUp(h0) /\ isThumbsUp(h1)) => ev.target = "spelling"
        /\ \/ isClosedFist(h0) /\ isThumbsUp(h1)
           \/ isThumbsUp(h0) /\ isClosedFist(h1)
           => ev.target = "sign"
        /\ (\E h \in {h0, h1} : ~isClosedFist(h) /\ ~isThumbsUp(h))
              => ev.target = NULL
        /\ ev.swapped = ev.target

----------------------------------------------------------------------------
(* The pointer navigator on its own: frames and the clock. *)

MaxTimeNav == 1800
NavSteps == {300}

NavTargets == {"btnA", "btnB"}

\* a hand with the index tip at (ix, 50) and the thumb tip dist away from it
NavHand(ix, dist) ==
  [id |-> 0, n |-> 21, lm |-> [OpenFingers EXCEPT ![8] = Pt(ix, 50, 0), ![4] = Pt(ix + dist, 50, 0)]]

\* pinching, exactly at the threshold (not pinching), apart; and a hand whose
\* landmark list stops before the index tip
NavHands ==
  {NavHand(ix, dist) : ix \in {25, 75}, dist \in {3, 6, 20}}
    \cup {[id |-> 0, n |-> 8, lm |-> OpenFingers]}

NavFrames == {<<>>} \cup {<<h>> : h \in NavHands}

NavFrame ==
  \E isEnabled \in BOOLEAN, hands \in NavFrames, under \in NavTargets \cup {NULL} :
    LET seen == isEnabled /\ Len(hands) > 0 /\ hands[1].n > 8
        pinch == seen /\ pinchDetected(hands[1])
        clicked == clickedBy(nav, hands, isEnabled, under, now)
    IN /\ nav' = updateFromHands(nav, hands, isEnabled, under, now)
       /\ ev' = [kind |-> "navframe", seen |-> seen, pinch |-> pinch,
                 prevPinch |-> obs.prevPinch,
                 under |-> IF seen THEN under ELSE NULL,
                 clicked |-> clicked, prevClick |-> obs.lastClickAt,
                 lost |-> ~isEnabled \/ Len(hands) = 0,
                 afterLoss |-> obs.afterLoss,
                 rawX |-> IF seen THEN mappedX(hands[1]) ELSE 0,
                 rawY |-> IF seen THEN mappedY(hands[1]) ELSE 0,
                 prevX |-> nav.smoothX]
       /\ obs' = [obs EXCEPT
                    !.prevPinch = IF seen THEN pinch ELSE @,
                    !.lastClickAt = IF clicked # NULL THEN now ELSE @,
                    !.afterLoss = IF ~isEnabled \/ Len(hands) = 0
                                  THEN nav.cursorRef.visible \/ @
                                  ELSE IF seen THEN FALSE ELSE @]
       /\ UNCHANGED <<now, sw, clf, wb, page>>

NavAdvance ==
  \E d \in NavSteps :
    /\ now + d <= MaxTimeNav
    /\ now' = now + d
    /\ ev' = [kind |-> "advance"]
    /\ UNCHANGED <<sw, nav, clf, wb, page, obs>>

NextNav == NavFrame \/ NavAdvance

SpecNav == Init /\ [][NextNav]_vars

C9_WitnessCooldown ==
  /\ ev.kind = "navframe" /\ ev.pinch /\ ~ev.prevPinch /\ ev.under # NULL
  /\ ev.prevClick # NoTime /\ now - ev.prevClick <= CLICK_COOLDOWN
  /\ now > ev.prevClick

\* C39: after every frame processed by the pointer navigator the pinch state
\* remembered for edge detection equals the published CursorState.isPinching;
\* in particular loss of hand visibility resets it, so a pinch first seen when
\* the hand is reacquired over a target outside the click cooldown counts as
\* a pinch-down and clicks.
C39_EdgeStateIsPublishedState ==
  /\ nav.wasPinching = nav.cursorState.isPinching
  /\ (/\ ev.kind = "navframe" /\ ev.seen /\ ev.pinch /\ ev.afterLoss
      /\ ev.under # NULL
      /\ now - (IF ev.prevClick = NoTime THEN 0 ELSE ev.prevClick) > CLICK_COOLDOWN)
        => ev.clicked = ev.under

\* C30: on a frame with no hand, or with navigation disabled, the cursor
\* becomes not visible with isPinching and isHovering false and the hovered
\* marking removed; on the next frame with a hand the cursor is at the raw
\* mapped position of that frame, not smoothed from the position before the
\* loss.
C30_LossHidesAndResnaps ==
  ev.kind = "navframe" =>
    /\ ev.lost =>
         /\ ~nav.cursorState.visible /\ ~nav.cursorState.isPinching
         /\ ~nav.cursorState.isHovering
         /\ nav.cursorRef = nav.cursorState
         /\ nav.hoveredElement = NULL /\ nav.marked = {}
    /\ (ev.seen /\ ev.afterLoss) =>
         /\ nav.cursorState.visible
         /\ nav.cursorState.x = ev.rawX /\ nav.cursorState.y = ev.rawY
         /\ nav.smoothX = ev.rawX /\ nav.smoothY = ev.rawY

\* C30 witness: the hand came back at a position other than the one the
\* cursor had before it was lost.
C30_Witness ==
  /\ ev.kind = "navframe" /\ ev.seen /\ ev.afterLoss
  /\ ev.prevX # ev.rawX /\ nav.cursorState.x = ev.rawX

\* a frame without a hand, or with navigation disabled, hid a visible cursor
C30_WitnessLoss ==
  /\ ev.kind = "navframe" /\ ev.lost /\ ev.afterLoss = FALSE /\ obs.afterLoss
  /\ ev.prevX > 0

----------------------------------------------------------------------------
(* The sequence buffer and classifier adapter on their own.  classify() is *)
(* declared async and guards re-entry with isClassifyingRef, so the model  *)
(* call is allowed to outlast a tick: a call is a start step and a finish  *)
(* step, and ticks may arrive in between.                                  *)

\* frames without a hand after which the input stream counts as silent
SilentFrames == 2
\* silent gaps followed
MaxStretch == 1

Confidences == {30, 45, 80}

Outcomes(c) ==
  {[throws |-> TRUE, maxIdx |-> 0, confidence |-> 0]}
    \cup {[throws |-> FALSE, maxIdx |-> i, confidence |-> k] :
            i \in {0, c.modelRef.classes - 1}, k \in Confidences}

\* the label lists labels.json may hold (<<>>: missing or unusable)
FetchedLabels == {<<>>, <<"letter_a", "hello", "unknown">>}

ClfLoad ==
  \E ok \in BOOLEAN, fetched \in FetchedLabels,
     numOutputClasses \in {2, Len(CLASS_LABELS), Len(CLASS_LABELS) + 1} :
    /\ ~clf.isModelLoaded /\ ~clf.modelError
    /\ clf' = loadModel(clf, fetched, ok, numOutputClasses)
    /\ ev' = [kind |-> "load"]
    /\ obs' = [obs EXCEPT !.vocabulary = IF Len(fetched) > 0 THEN fetched ELSE @]
    /\ UNCHANGED <<now, sw, nav, wb, page>>

ClfFrame ==
  \E present \in BOOLEAN :
    LET reappears == present /\ obs.noHandCount >= SilentFrames
        stretch == IF reappears THEN obs.stretch + 1 ELSE obs.stretch
        hands == IF present THEN <<[OpenHand EXCEPT !.id = stretch]>> ELSE <<>>
    IN /\ stretch <= MaxStretch
       /\ clf' = pushFrame(clf, hands)
       /\ ev' = [kind |-> "clfframe", present |-> present]
       /\ obs' = [obs EXCEPT
                    !.noHandCount = IF present THEN 0 ELSE Min(@ + 1, SilentFrames),
                    !.stretch = stretch]
       /\ UNCHANGED <<now, sw, nav, wb, page>>

\* the interval timer calls classify (classifyDemo while no model is loaded)
ClfTick ==
  LET proceeds == clf.isModelLoaded /\ classifyProceeds(clf)
  IN /\ clf' = IF clf.isModelLoaded THEN classifyStart(clf) ELSE clf
     /\ ev' = [kind |-> "tick", started |-> proceeds, emitted |-> NoGesture,
               before |-> clf.lastGesture]
     /\ obs' = [obs EXCEPT !.inFlight = IF proceeds THEN @ + 1 ELSE @]
     /\ UNCHANGED <<now, sw, nav, wb, page>>

ClfFinish ==
  \E outcome \in Outcomes(clf) :
    /\ obs.inFlight > 0
    /\ clf' = classifyFinish(clf, outcome)
    /\ ev' = [kind |-> "finish", started |-> FALSE,
              emitted |-> classifyResult(clf, outcome),
              outcome |-> outcome, before |-> clf.lastGesture]
    /\ obs' = [obs EXCEPT !.inFlight = @ - 1]
    /\ UNCHANGED <<now, sw, nav, wb, page>>

NextClassifier == ClfLoad \/ ClfFrame \/ ClfTick \/ ClfFinish

SpecClassifier == Init /\ [][NextClassifier]_vars

\* C6: at most one classification call is in flight at any time, the flag
\* isClassifyingRef is set exactly while one is, and a tick that arrives while a
\* call is in flight is dropped: it starts no call and emits no GestureResult.
C6_AtMostOneInFlight ==
  /\ obs.inFlight <= 1
  /\ clf.isClassifyingRef <=> obs.inFlight = 1
  /\ (ev.kind = "tick" /\ ~ev.started) => ev.emitted = NoGesture

\* C6 witness: a tick was dropped while a call was in flight.
C6_Witness == ev.kind = "tick" /\ ~ev.started /\ obs.inFlight = 1

\* C7: the sequence window never holds more than sequenceLength vectors.
C7_WindowBounded == Len(clf.bufferRef) <= sequenceLength

\* C7 witness: a frame was pushed onto a full window.
C7_Witness ==
  /\ ev.kind = "clfframe" /\ ev.present /\ Len(clf.bufferRef) = sequenceLength
  /\ clf.bufferRef[1].id # clf.bufferRef[sequenceLength].id

\* C8: the window is empty whenever the input stream has shown no hand for
\* SilentFrames consecutive frames, and a classification that starts after
\* hands reappear runs on vectors captured after the silent gap only.
C8_WindowResetOnSilence ==
  /\ obs.noHandCount >= SilentFrames => clf.bufferRef = <<>>
  /\ (ev.kind = "tick" /\ ev.started) =>
        \A i \in 1..Len(clf.bufferRef) : clf.bufferRef[i].id = obs.stretch

\* C32: every feature vector pushFrame appends has the same fixed length,
\* FEATURES_PER_FRAME (2 hands x 21 landmarks x 3 = 126, zero-padded for a
\* missing hand), the per-frame width the classifier is warmed up and invoked
\* with.
C32_FeatureWidthIsPerFrameWidth ==
  \A i \in 1..Len(clf.bufferRef) : clf.bufferRef[i].len = FEATURES_PER_FRAME

\* a step in which the model call of classify() threw: nothing is emitted,
\* lastGesture and the window stay as they were, the in-flight flag is
\* cleared and classify() would proceed if it were called again
ThrowYieldsNothing ==
  (ev'.kind = "finish" /\ ev'.outcome.throws) =>
    /\ ev'.emitted = NoGesture
    /\ clf'.lastGesture = clf.lastGesture
    /\ clf'.bufferRef = clf.bufferRef
    /\ clf.isClassifyingRef /\ ~clf'.isClassifyingRef
    /\ classifyProceeds(clf')

\* C40: when the model call inside classify() throws, the call yields nothing
\* (no GestureResult, no onGestureDetected event, lastGesture and the window
\* unchanged) and the in-flight flag is cleared, so a later tick can classify
\* again rather than being dropped forever.
C40_ThrowYieldsNothing == [][ThrowYieldsNothing]_vars

\* C40 witness: a model call threw after an earlier call had emitted a
\* gesture; the flag is clear and the window is still full.
C40_Witness ==
  /\ ev.kind = "finish" /\ ev.outcome.throws
  /\ ev.before # NoGesture /\ clf.lastGesture = ev.before
  /\ ~clf.isClassifyingRef /\ Len(clf.bufferRef) = sequenceLength

\* the very first call threw; classify() would proceed if called again
C40_WitnessFirst ==
  /\ ev.kind = "finish" /\ ev.outcome.throws /\ ev.before = NoGesture
  /\ classifyProceeds(clf)

\* C21 as stated: classify() emits a GestureResult only when the window holds
\* sequenceLength vectors and the top label's confidence exceeds the
\* threshold; otherwise nothing is emitted and lastGesture is unchanged.
C21_EmitsOnlyAboveThreshold ==
  ev.kind \in {"tick", "finish"} =>
    /\ ev.emitted # NoGesture =>
          /\ Len(clf.bufferRef) = sequenceLength
          /\ ev.outcome.confidence > confidenceThreshold
    /\ ev.emitted = NoGesture => clf.lastGesture = ev.before

\* C21 amended: classify() emits a GestureResult only when the window holds
\* sequenceLength vectors and the top label's confidence is at least the
\* threshold (a confidence equal to the threshold is emitted); otherwise
\* nothing is emitted and lastGesture is unchanged.
C21_EmitsOnlyAtThresholdOrAbove ==
  ev.kind \in {"tick", "finish"} =>
    /\ ev.emitted # NoGesture =>
          /\ Len(clf.bufferRef) = sequenceLength
          /\ ev.outcome.confidence >= confidenceThreshold
          /\ clf.lastGesture = ev.emitted
    /\ ev.emitted = NoGesture => clf.lastGesture = ev.before

\* C21 witness: a call below the threshold emitted nothing and left the
\* earlier lastGesture in place.
C21_Witness ==
  /\ ev.kind = "finish" /\ ~ev.outcome.throws
  /\ ev.outcome.maxIdx < Len(clf.modelLabelsRef)
  /\ ev.outcome.confidence < confidenceThreshold
  /\ ev.emitted = NoGesture /\ clf.lastGesture # NoGesture

\* a call whose confidence equals the threshold emitted its result
C21_WitnessAtThreshold ==
  /\ ev.kind = "finish" /\ ev.emitted # NoGesture
  /\ ev.outcome.confidence = confidenceThreshold

\* a tick on a window that is not full emitted nothing
C21_WitnessShortWindow ==
  /\ ev.kind = "tick" /\ ~ev.started /\ clf.modelRef.loaded
  /\ Len(clf.bufferRef) < sequenceLength /\ ~clf.isClassifyingRef

\* C22: when the model's output size differs from the number of labels, the
\* adapter continues with the smaller set: after loading, the label list is
\* the vocabulary cut to the model's output size, every GestureResult emitted
\* carries the vocabulary's label at an index below both the output size and
\* the label count, and a call raises no error (it returns, and the model
\* stays loaded without an error recorded).
C22_ContinuesWithSmallerSet ==
  clf.modelRef.loaded =>
    /\ clf.modelLabelsRef =
         SubSeq(obs.vocabulary, 1, Min(Len(obs.vocabulary), clf.modelRef.classes))
    /\ (ev.kind = "finish" /\ ev.emitted # NoGesture) =>
         /\ ev.outcome.maxIdx < clf.modelRef.classes
         /\ ev.outcome.maxIdx < Len(obs.vocabulary)
         /\ ev.emitted.label = obs.vocabulary[ev.outcome.maxIdx + 1]
    /\ ev.kind = "finish" =>
         ~clf.isClassifyingRef /\ clf.isModelLoaded /\ ~clf.modelError

\* C22 witness: a model with fewer outputs than labels emitted a result.
C22_Witness ==
  /\ clf.modelRef.loaded /\ clf.modelRef.classes < Len(obs.vocabulary)
  /\ ev.kind = "finish" /\ ev.emitted # NoGesture
  /\ ev.outcome.maxIdx = clf.modelRef.classes - 1

\* a model with more outputs than labels scored an output without a label
\* highest: the call returned nothing
C22_WitnessBeyondLabels ==
  /\ clf.modelRef.loaded /\ clf.modelRef.classes > Len(obs.vocabulary)
  /\ ev.kind = "finish" /\ ~ev.outcome.throws
  /\ ev.outcome.maxIdx >= Len(obs.vocabulary) /\ ev.emitted = NoGesture

----------------------------------------------------------------------------
(* The word builder with the letter path of the orchestrator: classifier    *)
(* results, the spelling controls, mode changes and the auto-finalize timer.*)
(* The countdown interval only redraws the remaining seconds; its callback  *)
(* is applied when the clock passes its due time.                           *)

MaxTimeWord == 4800
MaxLetters == 2
WordSteps == {300}
\* the instants at which the visitor operates a control
ControlTimes == {0, 1500, 3000}
WordResults ==
  {[label |-> "letter_a", confidence |-> c, source |-> "lstm"] : c \in {60, 80}}
  \cup {[label |-> l, confidence |-> 80, source |-> "lstm"] :
          l \in {"letter_b", "unknown"}}

RECURSIVE ticksUntil(_, _)
ticksUntil(w, t) ==
  IF w.countdownIntervalRef # NoTime /\ w.countdownIntervalRef <= t
  THEN ticksUntil(countdownTick(w), t) ELSE w

\* observer: the run of consecutive detections of one letter, each within the
\* streak window of the one before, after one more result.  A letter below the
\* spelling threshold is set aside; any other label ends the run.
ObsRun(result, t) ==
  IF isLetterShaped(result.label)
  THEN IF result.confidence >= SPELLING_CONFIDENCE_THRESHOLD
       THEN IF /\ obs.run.n > 0 /\ obs.run.label = result.label
               /\ t - obs.run.last <= LETTER_STREAK_WINDOW_MS
            THEN [obs.run EXCEPT !.n = @ + 1, !.last = t]
            ELSE [label |-> result.label, n |-> 1, last |-> t]
       ELSE obs.run
  ELSE NoRun

ObsSessionEnd(o) ==
  [o EXCEPT !.accChar = "", !.accTime = NoTime,
            !.lastActivity = NoTime, !.lastRestart = NoTime]

WordDetect ==
  \E result \in WordResults :
    LET w1 == onGestureDetected(World, result, now)
        appended == Len(w1.wb.lettersRef) = Len(wb.lettersRef) + 1
        restarted == w1.wb # wb
        run == ObsRun(result, now)
        done == isLetterShaped(result.label)
                /\ result.confidence >= SPELLING_CONFIDENCE_THRESHOLD
                /\ run.n = LETTER_STREAK_REQUIRED
        expected == done /\ (charOf(result.label) # obs.accChar
                             \/ now - obs.accTime >= MIN_LETTER_GAP_MS)
    IN /\ sw.mode = "spelling"
       /\ obs.tickAt # now
       /\ Len(wb.lettersRef) < MaxLetters
       /\ wb' = w1.wb
       /\ page' = w1.page
       /\ ev' = [kind |-> "detect", label |-> result.label,
                 confidence |-> result.confidence, appended |-> appended,
                 restarted |-> restarted, expected |-> expected,
                 before |-> wb.lettersRef, streak |-> page.letterStreakRef,
                 was |-> wb, page |-> page]
       /\ obs' = [obs EXCEPT
            !.run = IF done THEN NoRun ELSE run,
            !.accChar = IF appended THEN charOf(result.label) ELSE @,
            !.accTime = IF appended THEN now ELSE @,
            !.lastActivity = IF appended THEN now ELSE @,
            !.lastRestart = IF restarted THEN now ELSE @,
            !.calls = IF appended /\ Len(wb.lettersRef) = 0 THEN 0 ELSE @,
            !.ended = IF appended /\ Len(wb.lettersRef) = 0 THEN "none" ELSE @,
            !.tickAt = now]
       /\ UNCHANGED <<now, sw, nav, clf>>

\* a mode button: setModeManual, then the effects of the render that follows
WordSetMode ==
  \E target \in Modes \ {sw.mode} :
    LET w1 == modeEffects(World, [World EXCEPT !.sw = setModeManual(sw, target, now)])
    IN /\ now \in ControlTimes
       /\ sw' = w1.sw
       /\ wb' = w1.wb
       /\ page' = w1.page
       /\ ev' = [kind |-> "setmode", target |-> target]
       /\ obs' = IF target # "spelling"
                 THEN [ObsSessionEnd(obs) EXCEPT
                         !.run = NoRun,
                         !.ended = IF wb.state.isSpelling THEN "mode" ELSE @]
                 ELSE obs
       /\ UNCHANGED <<now, nav, clf>>

\* the delete control of the spelling panel
WordDelete ==
  /\ now \in ControlTimes
  /\ Len(wb.lettersRef) > 0
  /\ wb' = deleteLast(wb, now)
  /\ ev' = [kind |-> "delete", letters |-> wb.lettersRef, page |-> page]
  /\ obs' = LET o == [obs EXCEPT !.lastActivity = now, !.lastRestart = now]
            IN IF Len(wb.lettersRef) = 1
               THEN [ObsSessionEnd(o) EXCEPT !.ended = "delete"] ELSE o
  /\ UNCHANGED <<now, sw, nav, clf, page>>

\* the finalize control of the spelling panel
WordFinalize ==
  LET word == finalizeEmits(wb)
  IN /\ now \in ControlTimes
     /\ wb' = finalizeWord(wb)
     /\ page' = IF Len(wb.lettersRef) > 0 THEN onWordComplete(page, word) ELSE page
     /\ ev' = [kind |-> "finalize", word |-> word, letters |-> wb.lettersRef,
               page |-> page]
     /\ obs' = [ObsSessionEnd(obs) EXCEPT
                  !.calls = IF Len(wb.lettersRef) > 0 THEN @ + 1 ELSE @,
                  !.ended = IF Len(wb.lettersRef) > 0 THEN "finalize" ELSE @]
     /\ UNCHANGED <<now, sw, nav, clf>>

\* the cancel control of the spelling panel
WordCancel ==
  /\ now \in ControlTimes
  /\ wb' = cancelWord(wb)
  /\ ev' = [kind |-> "cancel", letters |-> wb.lettersRef, page |-> page]
  /\ obs' = [ObsSessionEnd(obs) EXCEPT
               !.ended = IF Len(wb.lettersRef) > 0 THEN "cancel" ELSE @]
  /\ UNCHANGED <<now, sw, nav, clf, page>>

\* the auto-finalize timeout falls due
WordTimerFire ==
  LET word == finalizeEmits(wb)
  IN /\ now \in wb.timeouts
     /\ wb' = autoFinalize(wb, now)
     /\ page' = IF Len(wb.lettersRef) > 0 THEN onWordComplete(page, word) ELSE page
     /\ ev' = [kind |-> "autofinalize", word |-> word, letters |-> wb.lettersRef,
               calls |-> IF Len(wb.lettersRef) > 0 THEN 1 ELSE 0,
               restartedAt |-> obs.lastRestart, activityAt |-> obs.lastActivity]
     /\ obs' = [ObsSessionEnd(obs) EXCEPT
                  !.calls = IF Len(wb.lettersRef) > 0 THEN @ + 1 ELSE @,
                  !.ended = "timeout"]
     /\ UNCHANGED <<now, sw, nav, clf>>

WordAdvance ==
  \E d \in WordSteps :
    /\ now + d <= MaxTimeWord
    /\ \A due \in wb.timeouts : now + d <= due
    /\ now' = now + d
    /\ wb' = ticksUntil(wb, now + d)
    /\ ev' = [kind |-> "advance"]
    /\ UNCHANGED <<sw, nav, clf, page, obs>>

NextWord ==
  \/ WordDetect \/ WordSetMode \/ WordDelete \/ WordFinalize \/ WordCancel
  \/ WordTimerFire \/ WordAdvance

SpecWord == Init /\ [][NextWord]_vars

\* C3: in spelling mode a detection appends its letter exactly when it is the
\* third consecutive detection of that label, each within 900 ms of the one
\* before, its confidence is at least 0.75, and the letter differs from the last
\* accepted letter or that letter was accepted at least 1200 ms ago; the
\* appended letter is added once and the 3 s countdown is restarted.
C3_LetterAppendedIff ==
  ev.kind = "detect" =>
    /\ ev.appended <=> ev.expected
    /\ ev.appended =>
         /\ wb.lettersRef = Append(ev.before, charOf(ev.label))
         /\ wb.timerRef = now + AUTO_FINALIZE_DELAY * 1000
         /\ wb.state.countdown = AUTO_FINALIZE_DELAY

\* C23: the letter streak resets whenever the detected label changes or the
\* 900 ms window lapses: after a detection of a label other than the one the
\* streak counts (another letter, "unknown", a non-letter sign, at any
\* confidence) the earlier detections no longer count, and a detection of the
\* same letter later than 900 ms after the last one counts as the first.
C23_StreakResetsOnChange ==
  ev.kind = "detect" =>
    /\ (ev.streak.count > 0 /\ ev.label # ev.streak.label) =>
          ~(page.letterStreakRef.label = ev.streak.label
            /\ page.letterStreakRef.count > 0)
    /\ (/\ ev.streak.count > 0 /\ ev.label = ev.streak.label
        /\ ev.confidence >= SPELLING_CONFIDENCE_THRESHOLD
        /\ now - ev.streak.lastTime > LETTER_STREAK_WINDOW_MS) =>
          page.letterStreakRef.count = 1

\* C24: a letter detection in spelling mode with confidence below 0.75 resets
\* nothing: the streak, the accumulated letters, the last accepted letter and
\* its time, and the auto-finalize countdown are left unchanged; only the
\* notice is set.
C24_LowConfidenceResetsNothing ==
  (/\ ev.kind = "detect" /\ isLetterShaped(ev.label)
   /\ ev.confidence < SPELLING_CONFIDENCE_THRESHOLD) =>
     /\ page.letterStreakRef = ev.streak
     /\ wb = ev.was
     /\ page = [ev.page EXCEPT
                  !.spellingNotice = "Hold the letter steady for clearer detection."]

\* C24 witness: a low-confidence letter arrived with a streak of two and a
\* word in progress.
C24_Witness ==
  /\ ev.kind = "detect" /\ isLetterShaped(ev.label)
  /\ ev.confidence < SPELLING_CONFIDENCE_THRESHOLD
  /\ ev.streak.count = 2 /\ Len(wb.lettersRef) = 1 /\ wb.timerRef > now

\* C25: deleteLast on a word of exactly one letter ends the spelling session:
\* afterwards the letter list is empty, isSpelling is false, countdown is
\* null, no auto-finalize timer is armed, and onWordComplete is never invoked
\* for that session.
C25_DeleteLastLetterEndsSession ==
  /\ (ev.kind = "delete" /\ Len(ev.letters) = 1) =>
        /\ wb.lettersRef = <<>> /\ wb.state = WbNoWord
        /\ wb.timerRef = NoTime /\ wb.countdownIntervalRef = NoTime
        /\ page = ev.page /\ obs.ended = "delete"
  /\ obs.ended = "delete" => obs.calls = 0

\* C25 witness: the only letter of a word was deleted and time has passed
\* beyond the moment its auto-finalize timer would have fired.
C25_Witness ==
  /\ obs.ended = "delete" /\ ~wb.state.isSpelling
  /\ ev.kind = "advance" /\ now >= 1500 + AUTO_FINALIZE_DELAY * 1000

\* C26: manual finalize ends the session at once and emits the joined word
\* exactly once (nothing when the word is empty), and the pending
\* auto-finalize timer does not emit it a second time; manual cancel ends the
\* session and emits nothing, now or later.
C26_FinalizeOnceCancelNever ==
  /\ ev.kind \in {"finalize", "cancel"} =>
        /\ wb.lettersRef = <<>> /\ wb.state = WbNoWord
        /\ wb.timerRef = NoTime /\ wb.countdownIntervalRef = NoTime
  /\ ev.kind = "finalize" =>
        IF ev.letters = <<>> THEN page = ev.page
        ELSE /\ ev.word = joinLetters(ev.letters)
             /\ page.pendingText = ev.word
             /\ obs.calls = 1
  /\ ev.kind = "cancel" => page = ev.page
  /\ obs.ended = "finalize" => obs.calls = 1
  /\ obs.ended = "cancel" => obs.calls = 0

\* C26 witness: a two-letter word was finalized by hand and time has passed
\* beyond the moment its auto-finalize timer was due.
C26_Witness ==
  /\ obs.ended = "finalize" /\ ~wb.state.isSpelling
  /\ Len(page.pendingText) = 2
  /\ ev.kind = "advance" /\ now > 1500 + AUTO_FINALIZE_DELAY * 1000

\* a word was cancelled by hand and time has passed beyond the moment its
\* auto-finalize timer was due
C26_WitnessCancel ==
  /\ obs.ended = "cancel" /\ ~wb.state.isSpelling
  /\ ev.kind = "advance" /\ now >= 1500 + AUTO_FINALIZE_DELAY * 1000

\* finalize was pressed with no word in progress
C26_WitnessEmpty == ev.kind = "finalize" /\ ev.letters = <<>>

\* C37: an auto-finalize timer is armed if and only if the letter list is
\* non-empty, at most one such timer is armed at any time (each restart clears
\* the previous one before creating the next, so the armed one is the one
\* timerRef holds), and isSpelling is true and countdown is non-null exactly
\* when the letter list is non-empty, across every sequence of addLetter,
\* deleteLast, finalizeWord, cancelWord and timer firings.
C37_TimerIffLetters ==
  /\ wb.timeouts # {} <=> wb.lettersRef # <<>>
  /\ Cardinality(wb.timeouts) <= 1
  /\ wb.timeouts = {wb.timerRef} \ {NoTime}
  /\ wb.state.isSpelling <=> wb.lettersRef # <<>>
  /\ wb.state.countdown # NoCountdown <=> wb.lettersRef # <<>>

\* C37 witness: a letter or a debounced duplicate restarted the countdown
\* while an earlier auto-finalize timer was still armed.
C37_Witness ==
  /\ ev.kind = "detect" /\ ev.restarted
  /\ ev.was.timerRef # NoTime /\ ev.was.timerRef > now
  /\ wb.timerRef # ev.was.timerRef /\ Cardinality(wb.timeouts) = 1

\* the auto-finalize timer fired and left nothing armed
C37_WitnessFired ==
  ev.kind = "autofinalize" /\ wb.timeouts = {} /\ wb.lettersRef = <<>>

\* a deletion left a shorter word with a restarted timer
C37_WitnessDelete ==
  ev.kind = "delete" /\ Len(ev.letters) = 2 /\ Cardinality(wb.timeouts) = 1

----------------------------------------------------------------------------
(* The kiosk page as a whole: initialisation, camera frames, classification *)
(* ticks, the controls, the interval of the confirmation panel and the      *)
(* synthesizer's events.  Every handler is followed by the render and the   *)
(* effects it causes.  The camera delivers FramesPerStep frames showing the *)
(* same hands every OrchStep ms, controls are operated at OrchControlTimes, *)
(* timers fire when they are due.  The classification interval (300 ms) is  *)
(* finer than the grid: while it is armed one tick is offered at each       *)
(* instant of the grid.  The visitor stays out of spelling mode (SpecWord   *)
(* covers the word builder) and the cursor is over no interactive element.  *)

MaxTimeOrch == 3000
MaxTranscript == 1
OrchStep == 1000
FramesPerStep == 30
\* the instants at which the visitor operates a control of the page
OrchControlTimes == {0, 2000}
OrchFrames == {<<>>, <<OpenHand>>, <<FistHand, FistHand>>}
OrchModes == {"sign", "navigate"}
OrchOutcomes ==
  {[throws |-> FALSE, maxIdx |-> i, confidence |-> 60] : i \in {0, 2, 5}}
    \cup {[throws |-> FALSE, maxIdx |-> 0, confidence |-> 30],
          [throws |-> FALSE, maxIdx |-> 3, confidence |-> 80]}

OnGrid == now % OrchStep = 0

\* the bundle after a handler's result w1 has been rendered
Settled(w1) == settle(World, w1, now)

Commit(w) ==
  /\ sw' = w.sw
  /\ nav' = w.nav
  /\ clf' = w.clf
  /\ wb' = w.wb
  /\ page' = w.page

\* observer: the time at which the pending translation now shown was put up
ObsConfirm(w, put) ==
  [obs EXCEPT !.confirmStart =
     IF w.page.pendingText = NULL THEN NoTime
     ELSE IF put \/ page.pendingText = NULL THEN now ELSE @]

\* n more frames pushed to the window
RECURSIVE pushFrames(_, _, _)
pushFrames(c, hands, n) ==
  IF n = 0 THEN c ELSE pushFrames(pushFrame(c, hands), hands, n - 1)

\* k frames showing the same hands at the instant t, each followed by its
\* render.  Once a frame has left everything but the window as it was, the
\* frames after it only push to the window (nothing else in a frame's
\* handling depends on the window).
RECURSIVE framesThrough(_, _, _, _)
RECURSIVE framesAfter(_, _, _, _, _)
framesAfter(w, after, hands, t, k) ==
  IF after = [w EXCEPT !.clf = after.clf]
  THEN [after EXCEPT !.clf = pushFrames(after.clf, hands, k - 1)]
  ELSE framesThrough(after, hands, t, k - 1)

framesThrough(w, hands, t, k) ==
  IF k = 0 THEN w
  ELSE framesAfter(w, settle(w, onHandResults(w, hands, NULL, t), t), hands, t, k)

\* KioskPage shows the kiosk (camera feed, controls, panel) unless the hand
\* tracker reported an error; then it shows the error screen only
kioskShown == page.tracker.error = NULL

\* the initialisation effect: initHandTracker and loadModel have returned
OrchInit ==
  \E ok \in BOOLEAN, trackerOk \in BOOLEAN :
    /\ page.status = "initializing"
    /\ Commit(Settled([World EXCEPT
                         !.page.tracker = initialize(@, trackerOk),
                         !.clf = loadModel(clf, <<>>, ok, Len(CLASS_LABELS)),
                         !.page.status = "ready"]))
    /\ ev' = [kind |-> "init"]
    /\ UNCHANGED <<now, obs>>

\* the effect that starts tracking once the tracker is ready and the video
\* element is mounted, up to the return of startTracking
OrchStartTracking ==
  \E camOk \in BOOLEAN :
    /\ ~page.tracker.isLoading /\ ~page.tracker.isTracking
    /\ kioskShown /\ page.status # "initializing"
    /\ Commit(Settled([World EXCEPT !.page.tracker = startTracking(@, camOk)]))
    /\ ev' = [kind |-> "starttracking"]
    /\ UNCHANGED <<now, obs>>

OrchFrame ==
  \E hands \in OrchFrames :
    /\ page.tracker.isTracking /\ OnGrid /\ obs.frameAt # now
    /\ \E w \in {framesThrough(World, hands, now, FramesPerStep)} :
       /\ Commit(w)
       /\ ev' = [kind |-> "frames", rendered |-> rendered(World, w) \/ w.page.panel # page.panel,
                 n |-> Len(hands), shown |-> detectGestureTarget(hands),
                 status |-> page.status, mode |-> sw.mode,
                 pending |-> page.pendingText, before |-> page.transcript]
       /\ obs' = [ObsConfirm(w, FALSE) EXCEPT !.frameAt = now]
       /\ UNCHANGED now

\* one tick of the classification interval: classify(), or classifyDemo()
\* while no model is loaded
OrchClassify ==
  \E outcome \in OrchOutcomes :
    LET runs == clf.isModelLoaded /\ classifyProceeds(clf)
        gesture == IF clf.isModelLoaded
                   THEN IF runs THEN classifyResult(clf, outcome) ELSE NoGesture
                   ELSE classifyDemo
        c1 == IF runs THEN classifyFinish(classifyStart(clf), outcome) ELSE clf
        w0 == [World EXCEPT !.clf = c1, !.fresh = gesture # NoGesture]
        w1 == IF gesture # NoGesture THEN onGestureDetected(w0, gesture, now) ELSE w0
        w == Settled(w1)
    IN /\ page.classifyIntervals > 0 /\ OnGrid /\ obs.tickAt # now
       /\ Len(page.transcript) < MaxTranscript
       /\ Commit(w)
       /\ ev' = [kind |-> "classify", emitted |-> gesture # NoGesture,
                 label |-> gesture.label, confidence |-> gesture.confidence,
                 mode |-> sw.mode, language |-> page.language,
                 status |-> page.status, pending |-> page.pendingText,
                 before |-> page.transcript]
       /\ obs' = [ObsConfirm(w, w1.page.status = "confirming" /\ gesture # NoGesture)
                    EXCEPT !.tickAt = now]
       /\ UNCHANGED now

OrchSetMode ==
  \E target \in OrchModes \ {sw.mode} :
    LET w == Settled([World EXCEPT !.sw = setModeManual(sw, target, now)])
    IN /\ page.status # "initializing" /\ kioskShown /\ now \in OrchControlTimes
       /\ Commit(w)
       /\ ev' = [kind |-> "setmode", target |-> target]
       /\ obs' = ObsConfirm(w, FALSE)
       /\ UNCHANGED now

OrchToggleLanguage ==
  LET w == Settled([World EXCEPT !.page = toggleLanguage(page)])
  IN /\ page.status # "initializing" /\ kioskShown /\ now \in OrchControlTimes
     /\ Commit(w)
     /\ ev' = [kind |-> "language"]
     /\ obs' = ObsConfirm(w, FALSE)
     /\ UNCHANGED now

\* the cancel button of the confirmation panel
OrchCancelConfirmation ==
  LET w == Settled([World EXCEPT !.page = handleCancelConfirmation(page)])
  IN /\ page.pendingText # NULL /\ now \in OrchControlTimes
     /\ Commit(w)
     /\ ev' = [kind |-> "cancelconfirm", before |-> page.transcript,
               speech |-> page.speech, countdown |-> page.panel.countdown,
               status |-> page.status]
     /\ obs' = ObsConfirm(w, FALSE)
     /\ UNCHANGED now

\* the callback of the confirmation panel's interval
OrchPanelTick ==
  LET w == Settled([World EXCEPT !.page = panelTick(page, now),
                                 !.fresh = page.panel.countdown <= 1])
  IN /\ page.panel.intervalRef = now
     /\ Commit(w)
     /\ ev' = [kind |-> "paneltick", confirmed |-> page.panel.countdown <= 1,
               before |-> page.transcript, pendingText |-> page.pendingText,
               pendingLabel |-> page.pendingLabel, language |-> page.language,
               startedAt |-> obs.confirmStart]
     /\ obs' = ObsConfirm(w, FALSE)
     /\ UNCHANGED now

OrchSpeechStart ==
  LET w == Settled([World EXCEPT !.page = onUtteranceStart(page)])
  IN /\ page.speech.utterance.phase = "queued"
     /\ Commit(w)
     /\ ev' = [kind |-> "speechstart"]
     /\ obs' = ObsConfirm(w, FALSE)
     /\ UNCHANGED now

OrchSpeechEnd ==
  LET w == Settled([World EXCEPT !.page = onUtteranceEnd(page)])
  IN /\ page.speech.utterance.phase = "speaking"
     /\ Commit(w)
     /\ ev' = [kind |-> "speechend"]
     /\ obs' = ObsConfirm(w, FALSE)
     /\ UNCHANGED now

\* the synthesizer fails, or reports the utterance that stop() cancelled
OrchSpeechError ==
  LET w == Settled([World EXCEPT !.page = onUtteranceError(page)])
  IN /\ page.speech.utterance.phase \in {"queued", "speaking", "cancelled"}
     /\ Commit(w)
     /\ ev' = [kind |-> "speecherror"]
     /\ obs' = ObsConfirm(w, FALSE)
     /\ UNCHANGED now

OrchDue == {page.panel.intervalRef} \ {NoTime}

OrchAdvance ==
  LET grid == now - (now % OrchStep) + OrchStep
      next == IF OrchDue = {} THEN grid
              ELSE Min(grid, CHOOSE d \in OrchDue : \A e \in OrchDue : d <= e)
  IN /\ \A d \in OrchDue : d > now
     /\ next <= MaxTimeOrch
     /\ now' = next
     /\ ev' = [kind |-> "advance"]
     /\ UNCHANGED <<sw, nav, clf, wb, page, obs>>

NextOrch ==
  \/ OrchInit \/ OrchStartTracking \/ OrchFrame \/ OrchClassify \/ OrchSetMode \/ OrchToggleLanguage
  \/ OrchCancelConfirmation \/ OrchPanelTick
  \/ OrchSpeechStart \/ OrchSpeechEnd \/ OrchSpeechError \/ OrchAdvance

SpecOrch == Init /\ [][NextOrch]_vars

\* C5: a pending translation put up for confirmation and not cancelled is
\* confirmed when its 2 s countdown ends, whatever frames, pointer movement or
\* hold progress arrive meanwhile: exactly that translation is appended to the
\* transcript, status becomes "speaking" when the synthesizer starts and
\* "ready" when it reports completion.
C5_ConfirmedAfterCountdown ==
  /\ (page.status = "confirming" /\ page.pendingText # NULL) =>
        now <= obs.confirmStart + confirmationDelay * 1000
  /\ (ev.kind = "paneltick" /\ ev.confirmed) =>
        /\ Len(page.transcript) = Len(ev.before) + 1
        /\ page.transcript[Len(page.transcript)].text = ev.pendingText
        /\ page.transcript[Len(page.transcript)].sign = ev.pendingLabel
        /\ page.pendingText = NULL
  /\ ev.kind = "speechstart" => page.status = "speaking"
  /\ ev.kind = "speechend" => page.status = "ready"

\* C33: once confirming has started for a pending text the countdown is
\* restarted only by a change of the pending text: pointer movement, hover and
\* pinch changes, hold progress, a language toggle or any re-render of the
\* page neither reset nor postpone it, so auto-confirm is always due, and
\* fires, delaySeconds after the pending text was put up.
C33_CountdownRestartsOnlyOnTextChange ==
  /\ page.pendingText # NULL =>
        /\ page.panel.intervalRef # NoTime
        /\ page.panel.intervalRef + (page.panel.countdown - 1) * 1000
             = obs.confirmStart + confirmationDelay * 1000
  /\ (ev.kind = "paneltick" /\ ev.confirmed) =>
        now = ev.startedAt + confirmationDelay * 1000

\* The page with its scheduling: the clock advances and due timers fire.
SpecOrchLive == SpecOrch /\ WF_vars(OrchAdvance) /\ WF_vars(OrchPanelTick)

\* the synthesizer has reported on the utterance of a confirmation (its end,
\* an error, or the cancellation by stop()) before the last instant followed
SynthesizerReported ==
  ev.kind \in {"speechend", "speecherror"} /\ now < MaxTimeOrch

\* C34: status never stays in confirming or speaking forever after a
\* confirmation: once the synthesizer has reported the end of the utterance,
\* an error or its cancellation, status eventually returns to ready (and
\* hand frames update it again).
C34_StatusReturnsToReady == SynthesizerReported ~> (page.status = "ready")

\* a step of the page: the end of the panel's countdown appends one entry made
\* of the pending text and label, hands that text to the synthesizer, clears
\* the pending translation and leaves no countdown running; every other step
\* leaves the transcript alone and hands nothing to the synthesizer
ConfirmsOnce ==
  IF ev'.kind = "paneltick" /\ ev'.confirmed
  THEN /\ page.pendingText # NULL /\ page.pendingLabel # NULL
       /\ Len(page'.transcript) = Len(page.transcript) + 1
       /\ SubSeq(page'.transcript, 1, Len(page.transcript)) = page.transcript
       /\ page'.transcript[Len(page'.transcript)].text = page.pendingText
       /\ page'.transcript[Len(page'.transcript)].sign = page.pendingLabel
       /\ page'.speech.utterance.text = page.pendingText
       /\ page'.speech.utterance.phase = "queued"
       /\ page'.pendingText = NULL /\ page'.pendingLabel = NULL
       /\ page'.panel.intervalRef = NoTime
  ELSE /\ page'.transcript = page.transcript
       /\ page'.speech.utterance.phase = "queued" =>
             page'.speech.utterance = page.speech.utterance

C36_EntryLanguageIsTextLanguage ==
  /\ \A i \in 1..Len(page.transcript) :
        page.transcript[i].text
          = getTranslation(page.transcript[i].sign, page.transcript[i].language)
  /\ (ev.kind = "paneltick" /\ ev.confirmed) =>
        /\ page.speech.utterance.text
             = getTranslation(ev.pendingLabel, page.transcript[Len(page.transcript)].language)
        /\ page.speech.utterance.lang
             = IF page.transcript[Len(page.transcript)].language = "fil"
               THEN "fil" ELSE "en-US"

\* C38: the periodic classification timer is armed exactly while status is
\* detecting and at most one such timer exists at any time, including when
\* status toggles between ready and detecting and when the classify callback
\* is replaced by a mode or language change.
C38_IntervalIffDetecting ==
  /\ page.classifyIntervals = IF page.status = "detecting" THEN 1 ELSE 0
  /\ page.classifyIntervalRef <=> page.status = "detecting"

\* C38 witness: the language was toggled while status was detecting (classify
\* was replaced and the interval re-created).
C38_Witness ==
  ev.kind = "language" /\ page.status = "detecting" /\ page.classifyIntervals = 1

\* the mode was changed while status was detecting
C38_WitnessMode ==
  ev.kind = "setmode" /\ page.status = "detecting" /\ page.classifyIntervals = 1

\* frames without a hand took status from detecting to ready
C38_WitnessToggle ==
  /\ ev.kind = "frames" /\ ev.status = "detecting" /\ page.status = "ready"
  /\ page.classifyIntervals = 0

\* Why C34 fails whatever the horizon: once nothing is pending and the
\* synthesizer holds no utterance, a status of confirming or speaking is
\* changed by no step of the page.
StatusLocked ==
  /\ page.status \in {"confirming", "speaking"}
  /\ page.pendingText = NULL /\ page.speech.utterance.phase = "none"

C34_LockedStatusStays == [][StatusLocked => StatusLocked']_vars

\* observer: the texts of the vocabulary's signs in the two languages
ObsText ==
  [en |-> [hello |-> "Hello", thank_you |-> "Thank you", unknown |-> "Unknown"],
   fil |-> [hello |-> "Kamusta", thank_you |-> "Salamat", unknown |-> "Hindi malinaw"]]

\* C10 as stated: a result whose label is neither a mode label nor
\* letter-shaped, received in sign or navigate mode, puts up the label's text in
\* the current language as the pending translation and moves status to
\* "confirming".
C10_OtherLabelConfirms ==
  (/\ ev.kind = "classify" /\ ev.emitted
   /\ ev.label \notin ModeLabels /\ ~isLetterShaped(ev.label)
   /\ ev.mode \in {"sign", "navigate"}) =>
     /\ page.pendingText = ObsText[ev.language][ev.label]
     /\ page.pendingLabel = ev.label
     /\ page.status = "confirming"

\* C10 amended: the same for every such label other than "unknown"; "unknown"
\* puts up nothing and leaves the status as it was.
C10_KnownLabelConfirms ==
  (/\ ev.kind = "classify" /\ ev.emitted
   /\ ev.label \notin ModeLabels /\ ~isLetterShaped(ev.label)
   /\ ev.mode \in {"sign", "navigate"}) =>
     IF ev.label = "unknown"
     THEN page.pendingLabel # "unknown" /\ page.status # "confirming"
     ELSE /\ page.pendingText = ObsText[ev.language][ev.label]
          /\ page.pendingLabel = ev.label
          /\ page.status = "confirming"

\* C10 witness: "hello" at confidence 0.6 in sign mode put up "Hello".
C10_Witness ==
  /\ ev.kind = "classify" /\ ev.emitted /\ ev.label = "hello"
  /\ ev.confidence = 60 /\ ev.mode = "sign"
  /\ page.pendingText = "Hello" /\ page.status = "confirming"

\* the first sequence is an initial part of the second
IsPrefix(a, b) == Len(a) <= Len(b) /\ SubSeq(b, 1, Len(a)) = a

\* C12: while status is "confirming" or "speaking" the classification interval
\* is not armed, so no classification tick runs and no classifier result is
\* turned into an action; frames delivered in these statuses leave the status,
\* the pending translation, the word being spelled, the letter streak and the
\* transcript as they were.
C12_QuietWhileConfirming ==
  /\ page.status \in {"confirming", "speaking"} => ~page.classifyIntervalRef
  /\ ev.kind = "classify" => ev.status = "detecting"
  /\ (ev.kind = "frames" /\ ev.status \in {"confirming", "speaking"}) =>
        /\ page.status = ev.status
        /\ page.pendingText = ev.pending
        /\ page.transcript = ev.before
        /\ wb.lettersRef = <<>> /\ page.letterStreakRef = NoStreak

\* C15: the cancel button during "confirming" returns status to "ready",
\* clears the pending translation, appends nothing to the transcript and
\* hands nothing to the synthesizer; the countdown's interval is cleared, and
\* no interval of the panel is ever armed while nothing is pending, so the
\* cancelled countdown never confirms.
C15_CancelDiscards ==
  /\ ev.kind = "cancelconfirm" =>
        /\ page.status = "ready"
        /\ page.pendingText = NULL /\ page.pendingLabel = NULL
        /\ page.transcript = ev.before
        /\ page.speech = ev.speech
  /\ page.pendingText = NULL => page.panel.intervalRef = NoTime
  /\ (ev.kind = "paneltick" /\ ev.confirmed) => ev.pendingText # NULL

\* C15 witness: the translation was cancelled at the instant its countdown,
\* at 1, was about to end.
C15_Witness ==
  /\ ev.kind = "cancelconfirm" /\ ev.status = "confirming" /\ ev.countdown = 1
  /\ now >= 2000

C18_ModelFailureIsAdvisory ==
  clf.modelError =>
    /\ page.status # "error" /\ ~clf.isModelLoaded
    /\ clf.lastGesture = NoGesture
    /\ ev.kind = "classify" =>
          ~ev.emitted /\ page.pendingText = ev.pending /\ sw.mode = ev.mode
    /\ (ev.kind = "frames" /\ ev.shown # NULL /\ sw.mode # ev.shown) =>
          IF now - sw.lastToggleRef < TOGGLE_COOLDOWN
          THEN ~sw.isHolding
          ELSE sw.isHolding /\ sw.holdTarget = ev.shown
    /\ (ev.kind = "frames" /\ sw.mode = "navigate" /\ ev.mode = "navigate") =>
          nav.cursorRef.visible = (ev.n > 0)

\* C18 witness: with the model missing, a held two-fist pose committed the
\* switch to navigate mode.
C18_Witness ==
  /\ clf.modelError /\ ev.kind = "frames" /\ ev.shown = "navigate"
  /\ ev.mode = "sign" /\ sw.mode = "navigate"

\* C18 witness: with the model missing, a classification tick ran on a full
\* window and the cursor followed a hand in navigate mode.
C18_WitnessPointer ==
  /\ clf.modelError /\ ev.kind = "classify" /\ sw.mode = "navigate"
  /\ nav.cursorRef.visible /\ Len(clf.bufferRef) = sequenceLength

\* C17: once the hand tracker has reported a failure (initialisation or
\* webcam access), status is "error".
C17_TrackerFailureIsError == page.tracker.error # NULL => page.status = "error"

\* a step that changes the mode is a frame completing the hold of the pose
\* for the new mode, a classifier result carrying the new mode's label, or a
\* mode button
ModeChangeIsHoldOrManual ==
  sw'.mode # sw.mode =>
    \/ /\ ev'.kind = "frames" /\ ev'.shown = sw'.mode
       /\ sw.holdStartRef # NoTime /\ sw.holdTargetRef = sw'.mode
       /\ now - sw.holdStartRef >= HOLD_DURATION
    \/ /\ ev'.kind = "classify" /\ ev'.emitted
       /\ ev'.label \in ModeLabels /\ modeOfLabel(ev'.label) = sw'.mode
    \/ ev'.kind = "setmode" /\ ev'.target = sw'.mode

\* C27: the initial mode is sign, and the mode changes only through a
\* completed pose hold or through setModeManual (mode button or classifier
\* mode label): frames that do not complete a hold, confirmation,
\* cancellation, the language control and speech events leave it unchanged.
C27_ModeChangesOnlyByHoldOrManual ==
  sw.mode = "sign" /\ [][ModeChangeIsHoldOrManual]_vars

\* C27 witness: a frame completed the hold of two fists and the mode went
\* from sign to navigate.
C27_Witness ==
  /\ ev.kind = "frames" /\ ev.shown = "navigate" /\ ev.mode = "sign"
  /\ sw.mode = "navigate" /\ sw.lastToggleRef = now /\ now >= HOLD_DURATION

\* a classifier result carrying a mode label changed the mode
C27_WitnessLabel ==
  /\ ev.kind = "classify" /\ ev.emitted /\ ev.label = "mode_navigate"
  /\ ev.mode = "sign" /\ sw.mode = "navigate"

\* a confirmation was spoken to its end in navigate mode
C27_WitnessSpoken ==
  ev.kind = "speechend" /\ Len(page.transcript) = 1 /\ sw.mode = "navigate"


\* a classification tick ran although the page showed a mode-switch hold in
\* progress outside navigate mode
TickDuringHold ==
  ev'.kind = "classify" /\ sw.isHolding /\ sw.mode \in {"sign", "spelling"}

\* C31: while a mode-switch pose is being held (isHolding true) in sign or
\* spelling mode classification is suppressed: no classification tick runs
\* and no classifier result is routed for as long as the hold lasts.
C31_NoClassificationWhileHolding == [][~TickDuringHold]_vars
----------------------------------------------------------------------------
(* The kiosk with spelling mode on a grid of KioskStep ms: at each instant *)
(* one frame or a burst of KioskBurst frames showing the same hands, one    *)
(* tick of the classification interval (300 ms, finer than the grid) while  *)
(* it is armed, the mode buttons at KioskControlTimes; the countdown of the *)
(* word builder ticks as the clock moves.  Every handler is followed by the *)
(* render and the effects it causes.  The classifier reports the letter A   *)
(* and the three mode labels, so that no translation is put up, and the     *)
(* sessions end before a word's auto-finalize falls due (SpecWord and       *)
(* SpecOrch cover those).                                                   *)

MaxTimeKiosk == 2500
KioskStep == 500
KioskBurst == 10
KioskCounts == {1, KioskBurst}
KioskControlTimes == {0, 2500}
KioskFrames == {<<>>, <<OpenHand>>, <<FistHand, FistHand>>}
KioskOutcomes ==
  {[throws |-> FALSE, maxIdx |-> 3, confidence |-> 80]}
    \cup {[throws |-> FALSE, maxIdx |-> i, confidence |-> 60] : i \in {5, 6, 7}}

\* initialisation, model load and startTracking have succeeded
KioskInit ==
  /\ page.status = "initializing"
  /\ Commit(Settled([World EXCEPT
                       !.page.tracker = startTracking(initialize(@, TRUE), TRUE),
                       !.clf = loadModel(clf, <<>>, TRUE, Len(CLASS_LABELS)),
                       !.page.status = "ready"]))
  /\ ev' = [kind |-> "init"]
  /\ UNCHANGED <<now, obs>>

\* k frames showing the same hands; the event records what the render before
\* the last of them saw
KioskFrame ==
  \E hands \in KioskFrames, k \in KioskCounts :
    /\ page.tracker.isTracking /\ now % KioskStep = 0 /\ obs.frameAt # now
    /\ \E pre \in {framesThrough(World, hands, now, k - 1)} :
       /\ Commit(settle(pre, onHandResults(pre, hands, NULL, now), now))
       /\ ev' = [kind |-> "frames", n |-> Len(hands), k |-> k,
                 shown |-> detectGestureTarget(hands),
                 status |-> pre.page.status, mode |-> pre.sw.mode,
                 holding |-> pre.sw.isHolding, word |-> pre.wb.state.isSpelling,
                 status0 |-> page.status, mode0 |-> sw.mode,
                 word0 |-> wb.state.isSpelling]
       /\ obs' = [obs EXCEPT !.frameAt = now]
       /\ UNCHANGED now

\* one tick of the classification interval
KioskClassify ==
  \E outcome \in KioskOutcomes :
    LET runs == clf.isModelLoaded /\ classifyProceeds(clf)
        gesture == IF clf.isModelLoaded
                   THEN IF runs THEN classifyResult(clf, outcome) ELSE NoGesture
                   ELSE classifyDemo
        c1 == IF runs THEN classifyFinish(classifyStart(clf), outcome) ELSE clf
        w0 == [World EXCEPT !.clf = c1, !.fresh = gesture # NoGesture]
        w1 == IF gesture # NoGesture THEN onGestureDetected(w0, gesture, now) ELSE w0
        w == Settled(w1)
    IN /\ page.classifyIntervals > 0 /\ now % KioskStep = 0 /\ obs.tickAt # now
       /\ Len(wb.lettersRef) < MaxLetters
       /\ Commit(w)
       /\ ev' = [kind |-> "classify", emitted |-> gesture # NoGesture,
                 label |-> gesture.label, mode |-> sw.mode, routed |-> sw.mode,
                 cooling |-> inCooldown(sw, now), holding |-> sw.isHolding,
                 holdTarget |-> sw.holdTarget, pending |-> page.pendingText,
                 letters |-> wb.lettersRef, streak |-> page.letterStreakRef]
       /\ obs' = [obs EXCEPT !.tickAt = now]
       /\ UNCHANGED now

\* a mode button
KioskSetMode ==
  \E target \in Modes \ {sw.mode} :
    LET w == Settled([World EXCEPT !.sw = setModeManual(sw, target, now)])
    IN /\ page.status # "initializing" /\ kioskShown /\ now \in KioskControlTimes
       /\ Commit(w)
       /\ ev' = [kind |-> "setmode", target |-> target, mode |-> sw.mode,
                 word |-> wb.state.isSpelling]
       /\ UNCHANGED <<now, obs>>

\* the clock moves to the next instant of the grid; the countdown ticks of the
\* word builder that fall due are run and rendered
KioskAdvance ==
  LET t == now + KioskStep
      w == settle(World, [World EXCEPT !.wb = ticksUntil(wb, t)], t)
  IN /\ t <= MaxTimeKiosk
     /\ \A due \in wb.timeouts : t < due
     /\ now' = t
     /\ Commit(w)
     /\ ev' = [kind |-> "advance"]
     /\ UNCHANGED obs

NextKiosk == KioskInit \/ KioskFrame \/ KioskClassify \/ KioskSetMode \/ KioskAdvance

SpecKiosk == Init /\ [][NextKiosk]_vars

\* C11 as stated: after every processed frame that leaves the status other
\* than "confirming" and "speaking", status is "detecting" if a hand is visible
\* or the mode is spelling with a word session active, and "ready" otherwise.
C11_StatusFollowsHands ==
  (ev.kind = "frames" /\ page.status \notin {"confirming", "speaking"}) =>
     page.status = IF ev.n > 0 \/ (sw.mode = "spelling" /\ wb.state.isSpelling)
                   THEN "detecting" ELSE "ready"

\* C11 amended: the same, except that in sign or spelling mode a frame handled
\* while the page shows a mode-switch hold in progress (isHolding at the render
\* before the frame) leaves the status as it was; mode and word session are
\* those of the render before the frame.  KioskBurst (ten) consecutive frames
\* without hands in sign mode take the status from "detecting" to "ready".
C11_StatusFollowsHandsUnlessHolding ==
  /\ (ev.kind = "frames" /\ ev.status \notin {"confirming", "speaking"}) =>
        IF ev.mode # "navigate" /\ ev.holding
        THEN page.status = ev.status
        ELSE page.status = IF ev.n > 0 \/ (ev.mode = "spelling" /\ ev.word)
                           THEN "detecting" ELSE "ready"
  /\ (/\ ev.kind = "frames" /\ ev.k = KioskBurst /\ ev.n = 0
      /\ ev.mode0 = "sign" /\ ev.status0 = "detecting") => page.status = "ready"

\* C11 witness: in spelling mode with a word session active, frames without
\* hands left the status "detecting".
C11_Witness ==
  /\ ev.kind = "frames" /\ ev.n = 0 /\ ev.mode = "spelling" /\ ev.word
  /\ ~ev.holding /\ page.status = "detecting"

\* C11 witness: ten frames without hands in sign mode, the first of them
\* handled while a hold was shown, took the status from "detecting" to "ready".
C11_WitnessTenFrames ==
  /\ ev.kind = "frames" /\ ev.k = KioskBurst /\ ev.n = 0 /\ ev.mode0 = "sign"
  /\ ev.status0 = "detecting" /\ page.status = "ready"

\* C11 witness: a single frame without hands, handled while a hold was
\* shown, left the status "detecting".
C11_WitnessHolding ==
  /\ ev.kind = "frames" /\ ev.n = 0 /\ ev.holding /\ ev.mode = "sign"
  /\ page.status = "detecting"

\* observer: the mode each mode label stands for
ObsMode == [mode_navigate |-> "navigate", mode_spelling |-> "spelling", mode_sign |-> "sign"]

\* C13: a classifier result with a mode label leaves the mode at the label's
\* target at once, whether or not the pose cooldown is running or a pose hold
\* is in progress; where it changes the mode no hold is left; it puts up no
\* pending translation, adds no letter and does not count toward a streak.
C13_ModeLabelSwitches ==
  (ev.kind = "classify" /\ ev.emitted /\ ev.label \in ModeLabels) =>
     /\ sw.mode = ObsMode[ev.label]
     /\ sw.mode # ev.mode => (~sw.isHolding /\ sw.holdTarget = NULL /\ sw.holdProgress = 0)
     /\ page.pendingText = ev.pending /\ page.status # "confirming"
     /\ wb.lettersRef \in {ev.letters, <<>>}
     /\ page.letterStreakRef \in {ev.streak, NoStreak}

\* C14: while the mode is not spelling there is no word: no letters, no
\* active session, neither the auto-finalize timer nor the countdown interval
\* armed, and nothing was handed to onWordComplete (no pending translation,
\* status not "confirming").
C14_NoWordOutsideSpelling ==
  sw.mode # "spelling" =>
    /\ wb.lettersRef = <<>> /\ ~wb.state.isSpelling /\ wb.state.letters = <<>>
    /\ wb.timerRef = NoTime /\ wb.countdownIntervalRef = NoTime
    /\ page.pendingText = NULL /\ page.status # "confirming"
    /\ page.transcript = <<>>

\* C14 witness: a completed pose hold left spelling mode while a word was
\* being spelled.
C14_Witness ==
  /\ ev.kind = "frames" /\ ev.mode0 = "spelling" /\ ev.word0
  /\ sw.mode = "navigate"

\* C14 witness: a mode label left spelling mode while a word was being spelled.
C14_WitnessLabel ==
  /\ ev.kind = "classify" /\ ev.mode = "spelling" /\ ev.letters # <<>>
  /\ sw.mode # "spelling"

\* C14 witness: a mode button left spelling mode while a word was being spelled.
C14_WitnessManual ==
  /\ ev.kind = "setmode" /\ ev.mode = "spelling" /\ ev.word
  /\ sw.mode # "spelling"

----------------------------------------------------------------------------
(* Handlers that run between a state update and the render that follows it. *)
(* A frame's or a tick's state updates are queued by React and rendered in  *)
(* a later task, and the effects that install the new onResults callback    *)
(* and the new classification interval run later still; until then the      *)
(* animation-frame loop and the interval call the callbacks created by the  *)
(* previous render.  Each action below runs two handlers back to back and   *)
(* then the render: the second handler works on the state the first left    *)
(* and with the values the previous render captured.                        *)

\* the GestureResult of a tick on the bundle w, or NoGesture
tickGesture(w, outcome) ==
  IF w.clf.isModelLoaded
  THEN IF classifyProceeds(w.clf) THEN classifyResult(w.clf, outcome) ELSE NoGesture
  ELSE classifyDemo

\* a tick of the classification interval on the bundle w, by the classify and
\* onGestureDetected that the render of seen created
tick(w, seen, outcome, t) ==
  LET gesture == tickGesture(w, outcome)
      c1 == IF w.clf.isModelLoaded /\ classifyProceeds(w.clf)
            THEN classifyFinish(classifyStart(w.clf), outcome) ELSE w.clf
      w0 == [w EXCEPT !.clf = c1, !.fresh = @ \/ gesture # NoGesture]
  IN IF gesture # NoGesture
     THEN routeGesture(w0, seen.sw.mode, seen.page.language, gesture, t) ELSE w0

\* a frame on the bundle w, by the onHandResults that the render of seen created
frame(w, seen, hands, t) ==
  [handleFrame(w, seen, hands, NULL, t) EXCEPT !.fresh = @ \/ w.fresh]

\* a frame, then a tick of the interval before the page has rendered again
RouteFrameTick ==
  \E hands \in KioskFrames, outcome \in KioskOutcomes :
    LET w1 == frame(World, World, hands, now)
        gesture == tickGesture(w1, outcome)
        w == Settled(tick(w1, World, outcome, now))
    IN /\ page.tracker.isTracking /\ page.classifyIntervals > 0
       /\ now % KioskStep = 0 /\ obs.frameAt # now /\ obs.tickAt # now
       /\ Len(wb.lettersRef) < MaxLetters
       /\ Commit(w)
       /\ ev' = [kind |-> "classify", emitted |-> gesture # NoGesture,
                 label |-> gesture.label, mode |-> w1.sw.mode, routed |-> sw.mode,
                 cooling |-> inCooldown(sw, now), holding |-> sw.isHolding,
                 holdTarget |-> sw.holdTarget, pending |-> page.pendingText,
                 letters |-> wb.lettersRef, streak |-> page.letterStreakRef]
       /\ obs' = [obs EXCEPT !.frameAt = now, !.tickAt = now]
       /\ UNCHANGED now

\* a tick of the interval, then a frame before the page has rendered again
RouteTickFrame ==
  \E hands \in KioskFrames, outcome \in KioskOutcomes :
    LET w1 == tick(World, World, outcome, now)
        w == Settled(frame(w1, World, hands, now))
    IN /\ page.tracker.isTracking /\ page.classifyIntervals > 0
       /\ now % KioskStep = 0 /\ obs.frameAt # now /\ obs.tickAt # now
       /\ Len(wb.lettersRef) < MaxLetters
       /\ Commit(w)
       /\ ev' = [kind |-> "frames", n |-> Len(hands), k |-> 1,
                 shown |-> detectGestureTarget(hands),
                 status |-> page.status, mode |-> sw.mode,
                 holding |-> sw.isHolding, word |-> wb.state.isSpelling,
                 status0 |-> page.status, mode0 |-> sw.mode,
                 word0 |-> wb.state.isSpelling]
       /\ obs' = [obs EXCEPT !.frameAt = now, !.tickAt = now]
       /\ UNCHANGED now

NextRoute == NextKiosk \/ RouteFrameTick \/ RouteTickFrame

SpecRoute == Init /\ [][NextRoute]_vars

\* the same on the page of SpecOrch: a tick of the interval, then a frame
\* before the page has rendered again
OrchTickFrame ==
  \E hands \in OrchFrames, outcome \in OrchOutcomes :
    LET w1 == tick(World, World, outcome, now)
        w == Settled(frame(w1, World, hands, now))
    IN /\ page.tracker.isTracking /\ page.classifyIntervals > 0
       /\ OnGrid /\ obs.frameAt # now /\ obs.tickAt # now
       /\ Len(page.transcript) < MaxTranscript
       /\ Commit(w)
       /\ ev' = [kind |-> "frames", rendered |-> TRUE,
                 n |-> Len(hands), shown |-> detectGestureTarget(hands),
                 status |-> w1.page.status, mode |-> w1.sw.mode,
                 pending |-> w1.page.pendingText, before |-> page.transcript]
       /\ obs' = [ObsConfirm(w, w1.page.pendingText # page.pendingText)
                    EXCEPT !.frameAt = now, !.tickAt = now]
       /\ UNCHANGED now

NextOverlap == NextOrch \/ OrchTickFrame

SpecOverlap == Init /\ [][NextOverlap]_vars

\* C28: whenever a hold is in progress (isHolding true) its target differs
\* from the current mode, also after a mode button or a classifier mode label
\* changed the mode while a hold was in progress.
C28_HoldTargetIsNotMode ==
  sw.isHolding => sw.holdTarget # NULL /\ sw.holdTarget # sw.mode

\* C28 witness: a classifier mode label set the mode to the very target of a
\* hold in progress.
C28_Witness ==
  /\ ev.kind = "classify" /\ ev.emitted /\ ev.label \in ModeLabels
  /\ ev.holding /\ ev.holdTarget = modeOfLabel(ev.label)
  /\ sw.mode = ev.holdTarget /\ ~sw.isHolding

\* a hold is in progress
C28_WitnessHolding == sw.isHolding /\ sw.holdProgress > 0

\* C20: every classification result is routed with the mode in force when it
\* was produced: a result produced at or after the frame that committed a mode
\* switch is not routed with the mode of before the switch.
C20_RoutedWithCurrentMode ==
  (ev.kind = "classify" /\ ev.emitted) => ev.routed = ev.mode

\* the racing tick at its worst: a letter that completes a streak is routed as
\* in spelling mode on the frame that committed the switch to navigate mode
C20_StaleLetter ==
  /\ ev.kind = "classify" /\ ev.emitted /\ ev.label = "letter_a"
  /\ ev.routed = "spelling" /\ ev.mode = "navigate"
  /\ ev.streak.count = LETTER_STREAK_REQUIRED - 1
  /\ page.letterStreakRef = NoStreak

====
